---- MODULE Spec2Model ----
(***************************************************************************)
(* Freyja: the Twitter publishing clients and their token file.            *)
(*                                                                         *)
(* Python values are modelled as flat sequences of atoms:                  *)
(*   - a str is the sequence of its characters,                            *)
(*   - None is the one-atom sequence <<"None">>,                           *)
(*   - a dict with str values is <<"dict", key1>> \o v1 \o <<key2>> \o ... *)
(* The token file is a sequence of JSON symbols (or ENOENT when missing).  *)
(***************************************************************************)
EXTENDS Integers, Sequences, FiniteSets, TLC

\* ------------------------------------------------------------------ bounds
\* longest token / secret string the provider issues
MaxStrLen == 2
\* how many request tokens the provider hands out in one run
MaxRequestTokens == 2
\* how many rate-limited answers (429, no calls remaining) tweepy waits out
\* and sends again within one call
MaxRateLimitWaits == 1
\* longest string handed to _percent_encode
MaxEncLen == 2
\* most nonces drawn in one run
MaxNonces == 4
\* most posts scheduled, and most calls of post_tweet by the scheduler
MaxPosts == 2
MaxCalls == 3
\* most items added to the approval queue, and most calls of publish_tweet
\* by the dashboard
MaxItems == 2
MaxPublishes == 2
\* minutes within which a scheduled post is posted at once
ImmediateWindow == 5
\* the platform's length limit of a tweet (characters)
TweetLimit == 280

\* ------------------------------------------------------------------ values
None == <<"None">>
\* `self.request_token` is not set in __init__: the attribute does not exist
Unset == <<"unset">>
\* characters of str values; the quote and the backslash need a JSON escape
Quote == "\""
Backslash == "\\"
Alphabet == {"a", Quote, Backslash}

RECURSIVE StringsUpTo(_)
StringsUpTo(n) ==
    IF n = 0 THEN {<<>>}
    ELSE LET shorter == StringsUpTo(n - 1)
         IN  shorter \cup {Append(s, c) : s \in shorter, c \in Alphabet}

Strings == StringsUpTo(MaxStrLen) \ {<<>>}

\* F applied to the value of x, x being evaluated once
Bind(x, F(_)) == CHOOSE r \in {F(v) : v \in {x}} : TRUE

\* ------------------------------------------------------------------ dicts
TopKeys == {"access_token", "access_token_secret", "user_info", "saved_at"}
InfoKeys == {"username", "name"}
Keys == TopKeys \cup InfoKeys

\* the user_info dict built from verify_credentials()
UserInfo(username, name) == <<"dict", "username">> \o username \o <<"name">> \o name

IsDict(d) == Len(d) >= 1 /\ d[1] = "dict"

\* positions of `key` in the flat dict d
KeyPositions(d, key) == {i \in 2..Len(d) : d[i] = key}

\* first position after i holding one of `stops`, or Len(d)+1
NextStop(d, i, stops) ==
    LET later == {j \in (i + 1)..Len(d) : d[j] \in stops}
    IN  IF later = {} THEN Len(d) + 1
        ELSE CHOOSE j \in later : \A k \in later : j <= k

\* dict.get(key): the value of the last `key` entry, None when absent
Get(d, key, stops) ==
    LET ps == KeyPositions(d, key)
    IN  IF ps = {} THEN None
        ELSE LET p == CHOOSE i \in ps : \A k \in ps : k <= i
             IN  SubSeq(d, p + 1, NextStop(d, p, stops) - 1)

Username(info) == Get(info, "username", InfoKeys)

\* ------------------------------------------------------------------ json
\* Symbols of the token file: "{", "}", ",", "null", the characters of
\* Alphabet (Quote delimits a string, Backslash escapes), the digits of a
\* timestamp, and one symbol per key, standing for the text `"key": `.
Digits == {"1", "2"}
StringChars == Alphabet \cup Digits

\* an encoder that escapes the quote but not the backslash
RECURSIVE EscapeQuotesOnly(_)
EscapeQuotesOnly(s) ==
    IF s = <<>> THEN <<>>
    ELSE IF Head(s) = Quote
         THEN <<Backslash, Quote>> \o EscapeQuotesOnly(Tail(s))
         ELSE <<Head(s)>> \o EscapeQuotesOnly(Tail(s))

\* json.dump of a str: a backslash before each quote and each backslash
RECURSIVE Escape(_)
Escape(s) ==
    IF s = <<>> THEN <<>>
    ELSE IF Head(s) \in {Quote, Backslash}
         THEN <<Backslash, Head(s)>> \o Escape(Tail(s))
         ELSE <<Head(s)>> \o Escape(Tail(s))

DumpStr(s) == <<Quote>> \o Escape(s) \o <<Quote>>

\* json.dump of user_info: null, or the object of its two entries
DumpInfo(info) ==
    IF info = None THEN <<"null">>
    ELSE <<"{", "username">> \o DumpStr(Get(info, "username", InfoKeys))
         \o <<",", "name">> \o DumpStr(Get(info, "name", InfoKeys)) \o <<"}">>

\* json.dump of a tokens dict that also holds the consumer key of the app
DumpsWithConsumerKey(access_token, access_token_secret, info, saved_at) ==
    <<"{", "access_token">> \o DumpStr(access_token)
    \o <<",", "access_token_secret">> \o DumpStr(access_token_secret)
    \o <<",", "user_info">> \o DumpInfo(info)
    \o <<",", "saved_at">> \o DumpStr(saved_at)
    \o <<",", "consumer_key">> \o DumpStr(<<"c", "k">>) \o <<"}">>

\* json.dump(tokens, f) for the dict built by _save_user_tokens
Dumps(access_token, access_token_secret, info, saved_at) ==
    <<"{", "access_token">> \o DumpStr(access_token)
    \o <<",", "access_token_secret">> \o DumpStr(access_token_secret)
    \o <<",", "user_info">> \o DumpInfo(info)
    \o <<",", "saved_at">> \o DumpStr(saved_at) \o <<"}">>

ParseFail == [ok |-> FALSE, val |-> <<>>, next |-> 0]

\* the body of a JSON string, f[i] being the symbol after the opening quote
RECURSIVE ParseStr(_, _, _)
ParseStr(f, i, acc) ==
    IF i > Len(f) THEN ParseFail
    ELSE IF f[i] = Quote THEN [ok |-> TRUE, val |-> acc, next |-> i + 1]
    ELSE IF f[i] = Backslash
         THEN IF i + 1 <= Len(f) /\ f[i + 1] \in {Quote, Backslash}
              THEN ParseStr(f, i + 2, Append(acc, f[i + 1]))
              ELSE ParseFail
    ELSE IF f[i] \in StringChars THEN ParseStr(f, i + 1, Append(acc, f[i]))
    ELSE ParseFail

\* Parse("value", f, i, <<>>): a JSON value starting at f[i]: null, a string
\* or an object. Parse("first", ...) / Parse("member", ...): the members of an
\* object from f[i] on, acc being the dict read so far; only before the first
\* member may "}" close the object.
RECURSIVE Parse(_, _, _, _)
Parse(mode, f, i, acc) ==
    IF i > Len(f) THEN ParseFail
    ELSE IF mode = "value"
    THEN IF f[i] = "null" THEN [ok |-> TRUE, val |-> None, next |-> i + 1]
         ELSE IF f[i] = Quote THEN ParseStr(f, i + 1, <<>>)
         ELSE IF f[i] = "{" THEN Parse("first", f, i + 1, <<"dict">>)
         ELSE ParseFail
    ELSE IF mode = "first" /\ f[i] = "}"
    THEN [ok |-> TRUE, val |-> acc, next |-> i + 1]
    ELSE IF f[i] \notin Keys THEN ParseFail
    ELSE Bind(Parse("value", f, i + 1, <<>>), LAMBDA v :
             IF ~v.ok \/ v.next > Len(f) THEN ParseFail
             ELSE IF f[v.next] = "}"
             THEN [ok |-> TRUE, val |-> acc \o <<f[i]>> \o v.val, next |-> v.next + 1]
             ELSE IF f[v.next] = ","
             THEN Bind(acc \o <<f[i]>> \o v.val, LAMBDA dict :
                      Parse("member", f, v.next + 1, dict))
             ELSE ParseFail)

\* a decoder that closes an object the text leaves open
LoadsRepairing(f) ==
    Bind(Parse("value", f, 1, <<>>), LAMBDA v :
        IF v.ok /\ v.next = Len(f) + 1 THEN v
        ELSE Bind(Parse("value", f \o <<"}">>, 1, <<>>), LAMBDA u :
                 IF u.ok /\ u.next = Len(f) + 2 THEN u ELSE ParseFail))

\* json.load(f): the whole text is one value, or JSONDecodeError (ok = FALSE)
Loads(f) ==
    Bind(Parse("value", f, 1, <<>>), LAMBDA v :
        IF v.ok /\ v.next = Len(f) + 1 THEN v ELSE ParseFail)


\* ------------------------------------------------------------------ state
VARIABLES
    \* TwitterOAuthPublisher: the fields of the instance
    app_api_key, app_api_secret,
    user_access_token, user_access_secret, user_info,
    client, auth_handler, request_token,
    \* data/twitter_user_tokens.json: ENOENT, or the symbols of its text
    token_file,
    \* the provider: request tokens handed out, and those not yet exchanged
    issued, redeemable,
    \* the last call on the publisher: its name, its return value, and the
    \* requests it sent to the provider with their outcomes, and the file
    \* operations it made with theirs, in order
    last_op, last_result, net, fs,
    \* _save_user_tokens step by step, in each process that runs a publisher:
    \* where the process is, the text it is writing, and the text the last
    \* _load_user_tokens of any process read from the file
    pc, buffer, observed,
    \* the argument of the last call (the text of a publish call)
    last_args,
    \* the other publishers, each a record of its fields: FixedTwitterPublisher,
    \* TwitterPublisher, TwitterDirectAPI
    fixed, twitter, direct,
    \* TwitterDirectAPI._create_oauth_signature: the inputs of the last
    \* computation and what it computed
    sign_in, sign_out,
    \* TwitterDirectAPI._percent_encode: the last argument and its result
    enc_in, enc_out,
    \* TwitterDirectAPI._create_auth_header: the last header it made
    auth_header,
    \* the tasks of the event loop that call a TwitterDirectAPI: where each
    \* is; the nonces secrets.token_bytes has given so far; the signed
    \* requests sent so far, each with the nonce of its header
    tasks, drawn, requests,
    \* ModernSchedulingManager: SimpleScheduler.scheduled_posts; the clock; the
    \* tasks that run schedule_post or process_due_posts, where each is and
    \* what it holds; the post ids post_tweet was called for, and those it
    \* returned success for
    scheduled_posts, now, jobs, tweet_calls, successes,
    \* the dashboard: the rows of content_items; the request handlers, where
    \* each is and the item it read; the item ids publish_tweet was called for
    content_items, web, publish_calls

oauthVars == <<app_api_key, app_api_secret, user_access_token, user_access_secret,
               user_info, client, auth_handler, request_token>>
providerVars == <<issued, redeemable>>
callVars == <<last_op, last_result, net, fs, last_args>>
saveVars == <<pc, buffer, observed>>
pubVars == <<fixed, twitter, direct>>
signVars == <<sign_in, sign_out, enc_in, enc_out, auth_header>>
nonceVars == <<tasks, drawn, requests>>
schedVars == <<scheduled_posts, now, jobs, tweet_calls, successes>>
queueVars == <<content_items, web, publish_calls>>
appVars == <<nonceVars, schedVars, queueVars>>

\* the processes that run a publisher on the same data directory
Procs == {"A", "B"}

ENOENT == <<"ENOENT">>
PyTrue == <<"True">>
PyFalse == <<"False">>

\* a dict is falsy when empty, a str when '', None always
Falsy(x) == x = None \/ x = <<>> \/ x = <<"dict">>

\* the n-th request token of the provider
RequestToken(n) == <<"rt">> \o [i \in 1..n |-> "+"]

\* the object tweepy.API(auth) for the user tokens tok / sec
ApiClient(tok, sec) == <<"API">> \o tok \o <<"&">> \o sec

\* what verify_credentials() may do: raise, or answer with an account
Accounts == {[ok |-> TRUE, username |-> <<"a">>, name |-> <<"a", Quote>>],
             [ok |-> TRUE, username |-> <<"a", "a">>, name |-> <<Backslash>>]}
NoAccount == [ok |-> FALSE, username |-> <<>>, name |-> <<>>]
VerifyOutcomes == Accounts \cup {NoAccount}

\* what the access-token endpoint may do: reject, or answer with a token pair
AccessTokens == {[ok |-> TRUE, token |-> <<"a">>, secret |-> <<Quote, "a">>],
                 [ok |-> TRUE, token |-> <<"a", Backslash>>, secret |-> <<"a", "a">>]}
Rejected == [ok |-> FALSE, token |-> <<>>, secret |-> <<>>]

\* datetime.now().isoformat() at the time of a save
Timestamps == {<<"1">>, <<"2">>}

\* what the file system does with a write: "ok"; "open_fails", os.makedirs or
\* open() raises and the file is untouched; "write_fails", the file is
\* opened (truncated) and the write or the close raises
WriteOutcomes == {"ok", "open_fails", "write_fails"}

\* ------------------------------------------------------------------ token store
WriteLog(w) ==
    IF w = "ok" THEN "write:ok"
    ELSE IF w = "write_fails" THEN "write:write_fails"
    ELSE "write:open_fails"

\* _save_user_tokens: open(..., 'w') truncates, json.dump writes the text; any
\* exception is logged and swallowed
save_user_tokens(file, access_token, access_token_secret, info, saved_at, w) ==
    IF w = "ok" THEN Dumps(access_token, access_token_secret, info, saved_at)
    ELSE IF w = "write_fails" THEN <<>>
    ELSE file

\* _create_client without the call of _save_user_tokens
create_client_without_save(self, file, verify, saved_at, w) ==
    IF Falsy(self.app_api_key) \/ Falsy(self.app_api_secret)
       \/ Falsy(self.user_access_token) \/ Falsy(self.user_access_secret)
    THEN [client |-> self.client, user_info |-> self.user_info, file |-> file,
          ret |-> PyFalse, net |-> <<>>, fs |-> <<>>]
    ELSE IF ~verify.ok
    THEN [client |-> None, user_info |-> self.user_info, file |-> file,
          ret |-> PyFalse, net |-> <<"verify_credentials:fail">>, fs |-> <<>>]
    ELSE [client |-> ApiClient(self.user_access_token, self.user_access_secret),
          user_info |-> UserInfo(verify.username, verify.name),
          file |-> file, ret |-> PyTrue, net |-> <<"verify_credentials:ok">>,
          fs |-> <<WriteLog(w)>>]

\* _create_client saving the tokens whatever verify_credentials() answers
create_client_saving_unverified(self, file, verify, saved_at, w) ==
    IF Falsy(self.app_api_key) \/ Falsy(self.app_api_secret)
       \/ Falsy(self.user_access_token) \/ Falsy(self.user_access_secret)
    THEN [client |-> self.client, user_info |-> self.user_info, file |-> file,
          ret |-> PyFalse, net |-> <<>>, fs |-> <<>>]
    ELSE IF ~verify.ok
    THEN [client |-> None, user_info |-> self.user_info,
          file |-> save_user_tokens(file, self.user_access_token,
                                    self.user_access_secret, self.user_info,
                                    saved_at, w),
          ret |-> PyFalse, net |-> <<"verify_credentials:fail">>,
          fs |-> <<WriteLog(w)>>]
    ELSE LET info == UserInfo(verify.username, verify.name)
         IN  [client |-> ApiClient(self.user_access_token, self.user_access_secret),
              user_info |-> info,
              file |-> save_user_tokens(file, self.user_access_token,
                                        self.user_access_secret, info, saved_at, w),
              ret |-> PyTrue, net |-> <<"verify_credentials:ok">>,
              fs |-> <<WriteLog(w)>>]

\* _create_client on the fields `self`; verify is what verify_credentials()
\* does: it raises (ok = FALSE) or answers with an account. Gives the fields it assigns, the file,
\* its return value and the requests it sent.
create_client(self, file, verify, saved_at, w) ==
    IF Falsy(self.app_api_key) \/ Falsy(self.app_api_secret)
       \/ Falsy(self.user_access_token) \/ Falsy(self.user_access_secret)
    THEN [client |-> self.client, user_info |-> self.user_info, file |-> file,
          ret |-> PyFalse, net |-> <<>>, fs |-> <<>>]
    ELSE IF ~verify.ok
    THEN [client |-> None, user_info |-> self.user_info, file |-> file,
          ret |-> PyFalse, net |-> <<"verify_credentials:fail">>, fs |-> <<>>]
    ELSE LET info == UserInfo(verify.username, verify.name)
         IN  [client |-> ApiClient(self.user_access_token, self.user_access_secret),
              user_info |-> info,
              file |-> save_user_tokens(file, self.user_access_token,
                                        self.user_access_secret, info, saved_at, w),
              ret |-> PyTrue, net |-> <<"verify_credentials:ok">>,
              fs |-> <<WriteLog(w)>>]

\* _load_user_tokens on the fields `self`; read is "ok" or "oserror" (open()
\* raises). Every exception is logged and swallowed.
load_user_tokens(self, file, read, verify, saved_at, w) ==
    LET same == [user_access_token |-> self.user_access_token,
                 user_access_secret |-> self.user_access_secret,
                 client |-> self.client, user_info |-> self.user_info,
                 file |-> file, net |-> <<>>, fs |-> <<>>]
        opened == [same EXCEPT !.fs = <<"read:ok">>]
    IN  IF file = ENOENT THEN same
        ELSE IF read = "oserror" THEN [same EXCEPT !.fs = <<"read:oserror">>]
        ELSE Bind(Loads(file), LAMBDA parsed :
            IF ~parsed.ok \/ ~IsDict(parsed.val) THEN opened
            ELSE Bind([self EXCEPT
                         !.user_access_token = Get(parsed.val, "access_token", TopKeys),
                         !.user_access_secret = Get(parsed.val, "access_token_secret", TopKeys),
                         !.user_info = Get(parsed.val, "user_info", TopKeys)],
                      LAMBDA loaded :
                IF Falsy(loaded.user_access_token) \/ Falsy(loaded.user_access_secret)
                THEN [opened EXCEPT !.user_access_token = loaded.user_access_token,
                                  !.user_access_secret = loaded.user_access_secret,
                                  !.user_info = loaded.user_info]
                ELSE Bind(create_client(loaded, file, verify, saved_at, w),
                          LAMBDA made :
                    [user_access_token |-> loaded.user_access_token,
                     user_access_secret |-> loaded.user_access_secret,
                     client |-> made.client, user_info |-> made.user_info,
                     file |-> made.file, net |-> made.net,
                     fs |-> <<"read:ok">> \o made.fs])))

\* ------------------------------------------------------------------ TwitterOAuthPublisher
Self == [app_api_key |-> app_api_key, app_api_secret |-> app_api_secret,
         user_access_token |-> user_access_token,
         user_access_secret |-> user_access_secret,
         user_info |-> user_info, client |-> client,
         auth_handler |-> auth_handler, request_token |-> request_token]

\* os.getenv('TWITTER_APP_KEY') / os.getenv('TWITTER_APP_SECRET')
EnvValues == {None, <<"c", "k">>}

\* _init_oauth: the handler exists only when both app credentials are set
init_oauth(key, secret) ==
    IF Falsy(key) \/ Falsy(secret) THEN None ELSE <<"OAuth1UserHandler">>

\* a well-formed token file, as a former run saved it
SavedFiles == {Dumps(t.token, t.secret, UserInfo(a.username, a.name), at) :
                 t \in AccessTokens, a \in Accounts, at \in Timestamps}

\* a saved file whose end is missing: the closing brace, or more
CutOffFiles == {SubSeq(f, 1, Len(f) - k) : f \in SavedFiles, k \in {1, 3}}

\* what may lie at data/twitter_user_tokens.json when the process starts:
\* nothing, a saved file, an empty or cut-off file, JSON that is no object, an
\* empty object, an object without the secret
InitFiles == {ENOENT, <<>>, <<"null">>, <<"{", "}">>,
              <<"{", "access_token", Quote, "a", Quote, "}">>}
             \cup SavedFiles
             \cup CutOffFiles

\* __init__ with the environment key / secret and the file `file`: the fields
\* of the new instance, the file and the requests sent
construct(key, secret, file, read, verify, saved_at, w) ==
    LET fresh == [app_api_key |-> key, app_api_secret |-> secret,
                  user_access_token |-> None, user_access_secret |-> None,
                  user_info |-> None, client |-> None,
                  auth_handler |-> init_oauth(key, secret),
                  request_token |-> Unset]
    IN  Bind(load_user_tokens(fresh, file, read, verify, saved_at, w),
             LAMBDA loaded :
                 [fresh EXCEPT !.user_access_token = loaded.user_access_token,
                               !.user_access_secret = loaded.user_access_secret,
                               !.user_info = loaded.user_info,
                               !.client = loaded.client]
                 @@ [file |-> loaded.file, net |-> loaded.net, fs |-> loaded.fs])

AuthorizeUrl(rt) == <<"https://api.twitter.com/oauth/authorize?oauth_token=">> \o rt

\* get_authorization_url storing the request token before the endpoint answered
get_authorization_url_early_store(self, granted, rt) ==
    IF Falsy(self.auth_handler)
    THEN [request_token |-> self.request_token, ret |-> None, net |-> <<>>]
    ELSE IF ~granted
    THEN [request_token |-> rt, ret |-> None, net |-> <<"request_token:fail">>]
    ELSE [request_token |-> rt, ret |-> AuthorizeUrl(rt),
          net |-> <<"request_token:ok">>]

\* get_authorization_url; granted: the request-token endpoint answers with
\* the request token rt (otherwise tweepy raises)
get_authorization_url(self, granted, rt) ==
    IF Falsy(self.auth_handler)
    THEN [request_token |-> self.request_token, ret |-> None, net |-> <<>>]
    ELSE IF Falsy(self.app_api_key) \/ Falsy(self.app_api_secret)
    THEN [request_token |-> self.request_token, ret |-> None, net |-> <<>>]
    ELSE IF ~granted
    THEN [request_token |-> self.request_token, ret |-> None,
          net |-> <<"request_token:fail">>]
    ELSE [request_token |-> rt, ret |-> AuthorizeUrl(rt),
          net |-> <<"request_token:ok">>]

\* complete_authorization without the hasattr(self, 'request_token') test
complete_authorization_unguarded(self, file, exchange, verify, saved_at, w) ==
    LET same == [user_access_token |-> self.user_access_token,
                 user_access_secret |-> self.user_access_secret,
                 client |-> self.client, user_info |-> self.user_info,
                 file |-> file, ret |-> PyFalse, net |-> <<>>, fs |-> <<>>]
    IN  IF Falsy(self.auth_handler) THEN same
        ELSE IF ~exchange.ok THEN [same EXCEPT !.net = <<"access_token:fail">>]
        ELSE LET made == create_client(
                             [self EXCEPT !.user_access_token = exchange.token,
                                          !.user_access_secret = exchange.secret],
                             file, verify, saved_at, w)
             IN  [user_access_token |-> exchange.token,
                  user_access_secret |-> exchange.secret,
                  client |-> made.client, user_info |-> made.user_info,
                  file |-> made.file, ret |-> made.ret,
                  net |-> <<"access_token:ok">> \o made.net, fs |-> made.fs]

\* complete_authorization; exchange: what the access-token endpoint does with
\* the stored request token and the verifier
complete_authorization(self, file, exchange, verify, saved_at, w) ==
    LET same == [user_access_token |-> self.user_access_token,
                 user_access_secret |-> self.user_access_secret,
                 client |-> self.client, user_info |-> self.user_info,
                 file |-> file, ret |-> PyFalse, net |-> <<>>, fs |-> <<>>]
    IN  IF Falsy(self.auth_handler) \/ self.request_token = Unset THEN same
        ELSE IF ~exchange.ok THEN [same EXCEPT !.net = <<"access_token:fail">>]
        ELSE LET made == create_client(
                             [self EXCEPT !.user_access_token = exchange.token,
                                          !.user_access_secret = exchange.secret],
                             file, verify, saved_at, w)
             IN  [user_access_token |-> exchange.token,
                  user_access_secret |-> exchange.secret,
                  client |-> made.client, user_info |-> made.user_info,
                  file |-> made.file, ret |-> made.ret,
                  net |-> <<"access_token:ok">> \o made.net, fs |-> made.fs]

\* disconnect; remove: "ok", or "oserror" when os.remove raises
disconnect(file, remove) ==
    IF file = ENOENT THEN [file |-> file, ret |-> PyTrue, fs |-> <<>>]
    ELSE IF remove = "oserror"
    THEN [file |-> file, ret |-> PyFalse, fs |-> <<"remove:oserror">>]
    ELSE [file |-> ENOENT, ret |-> PyTrue, fs |-> <<"remove:ok">>]


\* ------------------------------------------------------------------ publishing
\* the keys of a publish result dict
ResultKeys == {"success", "tweet_id", "url", "username", "message", "method",
               "error", "simulation"}

\* the texts a caller publishes, and the ids the provider gives a new status
OverLong == [i \in 1..(TweetLimit + 1) |-> "a"]
Contents == {<<>>, <<"a">>, OverLong}
TweetIds == {"1001", "1002"}

\* what client.update_status(content) does: it returns the new status, or
\* raises tweepy.TooManyRequests (429), tweepy.Forbidden (403),
\* tweepy.Unauthorized (401) or another exception
PostOutcomes == {"ok", "TooManyRequests", "Forbidden", "Unauthorized", "error"}

PostLog(post) ==
    CASE post = "ok" -> "update_status:ok"
      [] post = "TooManyRequests" -> "update_status:429"
      [] post = "Forbidden" -> "update_status:403"
      [] post = "Unauthorized" -> "update_status:401"
      [] OTHER -> "update_status:error"

\* a call through tweepy.API(auth, wait_on_rate_limit=True): every 429 answer
\* that says no calls remain is waited out and the request is sent again,
\* `waits` times; `post` is the answer the call ends with
update_status(post, waits) ==
    [i \in 1..waits |-> "update_status:429"] \o <<PostLog(post)>>

TweetUrl(username, id) == <<"https://twitter.com/">> \o username \o <<"/status/", id>>

Failure(error, message) ==
    <<"dict", "success", "False", "error", error, "message", message>>

\* get_user_info: the cached user_info, else a fresh verify_credentials()
get_user_info(self, verify) ==
    IF ~Falsy(self.user_info)
    THEN [user_info |-> self.user_info, ret |-> self.user_info, net |-> <<>>]
    ELSE IF Falsy(self.client)
    THEN [user_info |-> self.user_info, ret |-> None, net |-> <<>>]
    ELSE IF ~verify.ok
    THEN [user_info |-> self.user_info, ret |-> None,
          net |-> <<"verify_credentials:fail">>]
    ELSE LET info == UserInfo(verify.username, verify.name)
         IN  [user_info |-> info, ret |-> info, net |-> <<"verify_credentials:ok">>]

\* TwitterOAuthPublisher.publish_tweet
publish_tweet(self, content, verify, post, id, waits) ==
    LET got == get_user_info(self, verify)
        username == Username(got.ret)
    IN  IF Falsy(self.client)
        THEN [user_info |-> self.user_info, net |-> <<>>,
              ret |-> Failure("Not connected to Twitter. Please login first.",
                              "Twitter login required")]
        ELSE IF Falsy(got.ret)
        THEN [user_info |-> got.user_info, net |-> got.net,
              ret |-> Failure("Cannot get user information",
                              "Failed to get Twitter user info")]
        ELSE IF post = "ok"
        THEN [user_info |-> got.user_info,
              net |-> got.net \o update_status(post, waits),
              ret |-> <<"dict", "success", "True", "tweet_id", id, "url">>
                      \o TweetUrl(username, id) \o <<"username">> \o username
                      \o <<"message", "Tweet posted to @">> \o username
                      \o <<"method", "api_v1.1">>]
        ELSE IF post = "TooManyRequests"
        THEN [user_info |-> got.user_info,
              net |-> got.net \o update_status(post, waits),
              ret |-> Failure("Rate limit exceeded. Please try again later.",
                              "Twitter API rate limit reached")]
        ELSE IF post = "Forbidden"
        THEN [user_info |-> got.user_info,
              net |-> got.net \o update_status(post, waits),
              ret |-> Failure("Twitter API error: 403 Forbidden",
                              "Permission denied - check your Twitter app permissions")]
        ELSE [user_info |-> got.user_info,
              net |-> got.net \o update_status(post, waits),
              ret |-> Failure(post, "Failed to post tweet")]

\* ------------------------------------------------------------------ FixedTwitterPublisher
\* ids made up in simulation mode: str(uuid.uuid4())[:10]
FakeIds == {"f1"}

\* __init__ and _init_client; has: the four credentials are in the
\* environment (_has_credentials); verify: what verify_credentials() does
fixed_init(has, verify) ==
    IF ~has THEN [has_credentials |-> FALSE, api_v1 |-> None, connected |-> FALSE]
    ELSE [has_credentials |-> TRUE, api_v1 |-> <<"API">>, connected |-> verify.ok]

\* FixedTwitterPublisher.publish_tweet; account: the user of the status the
\* provider answers with
fixed_publish_tweet(self, content, post, account, id, fake_id, waits) ==
    IF self.connected /\ ~Falsy(self.api_v1)
    THEN IF post = "ok"
         THEN [net |-> update_status(post, waits),
               ret |-> <<"dict", "success", "True", "tweet_id", id, "url">>
                       \o TweetUrl(account.username, id)
                       \o <<"message", "Tweet posted to @">> \o account.username]
         ELSE [net |-> update_status(post, waits),
               ret |-> Failure(post, "Failed to post tweet")]
    ELSE [net |-> <<>>,
          ret |-> <<"dict", "success", "True", "tweet_id", fake_id, "url">>
                  \o TweetUrl(<<"demo_account">>, fake_id)
                  \o <<"message", "Tweet posted (simulation mode - add Twitter API keys for real posting)">>]

\* ------------------------------------------------------------------ TwitterPublisher
\* __init__, _initialize_client and _fetch_user_info; has: the four
\* credentials are in the environment; me: what client.get_me() does
twitter_init(has, me) ==
    IF ~has THEN [client |-> None, user_info |-> None]
    ELSE [client |-> <<"Client">>,
          user_info |-> IF me.ok THEN UserInfo(me.username, me.name) ELSE None]

CreateLog(post) ==
    CASE post = "ok" -> "create_tweet:ok"
      [] post = "Forbidden" -> "create_tweet:403"
      [] post = "Unauthorized" -> "create_tweet:401"
      [] OTHER -> "create_tweet:error"

\* a call through tweepy.Client(..., wait_on_rate_limit=True): every 429
\* answer is waited out and the request is sent again
create_tweet(post, waits) ==
    [i \in 1..waits |-> "create_tweet:429"] \o <<CreateLog(post)>>

\* what a tweepy.Client call ends with: a 429 is never the end
ClientOutcomes == PostOutcomes \ {"TooManyRequests"}

\* TwitterPublisher.publish_tweet
twitter_publish_tweet(self, content, post, id, fake_id, waits) ==
    IF ~Falsy(self.client)
    THEN LET username == IF ~Falsy(self.user_info) THEN Username(self.user_info)
                         ELSE <<"twitter_user">>
         IN  IF post # "ok"
             THEN [net |-> create_tweet(post, waits),
                   ret |-> Failure(post, "Failed to post tweet")]
             ELSE [net |-> create_tweet(post, waits),
                   ret |-> <<"dict", "success", "True", "tweet_id", id, "url">>
                           \o TweetUrl(username, id) \o <<"username">> \o username
                           \o <<"message",
                                IF ~Falsy(self.user_info) THEN "Tweet posted to @"
                                ELSE "Tweet posted successfully">>]
    ELSE [net |-> <<>>,
          ret |-> <<"dict", "success", "True", "tweet_id", fake_id, "url">>
                  \o TweetUrl(<<"demo_user">>, fake_id)
                  \o <<"username", "demo_user",
                       "message", "Tweet posted (simulation mode)",
                       "simulation", "True">>]

\* ------------------------------------------------------------------ TwitterDirectAPI
\* what the provider does with one aiohttp request: it answers with an HTTP
\* status, or the request raises aiohttp.ClientError
PostAnswers == {"201", "401", "403", "429", "500", "ClientError"}
MeAnswers == {"200", "401", "ClientError"}

\* TwitterDirectAPI.get_user_info: GET /2/users/me, one request
direct_get_user_info(self, answer, account) ==
    IF answer = "200"
    THEN LET info == UserInfo(account.username, account.name)
         IN  [user_info |-> info, ret |-> <<"dict", "data">> \o info,
              net |-> <<"GET /2/users/me", answer>>]
    ELSE IF answer = "ClientError"
    THEN [user_info |-> self.user_info, ret |-> <<"dict", "error", answer>>,
          net |-> <<"GET /2/users/me", answer>>]
    ELSE [user_info |-> self.user_info, ret |-> <<"dict", "error", "HTTP", answer>>,
          net |-> <<"GET /2/users/me", answer>>]

\* TwitterDirectAPI._get_username: the cached username, else get_user_info()
direct_get_username(self, answer, account) ==
    IF ~Falsy(self.user_info)
    THEN [user_info |-> self.user_info, ret |-> Username(self.user_info), net |-> <<>>]
    ELSE LET got == direct_get_user_info(self, answer, account)
         IN  IF answer = "200"
             THEN [user_info |-> <<"dict", "username">> \o account.username,
                   ret |-> account.username, net |-> got.net]
             ELSE [user_info |-> got.user_info, ret |-> <<"twitter_user">>,
                   net |-> got.net]

\* TwitterDirectAPI.post_tweet: POST /2/tweets, one request; answer: what
\* the provider does with it; me, account: what it does with GET /2/users/me
post_tweet(self, content, answer, id, me, account) ==
    IF answer = "201"
    THEN LET got == direct_get_username(self, me, account)
         IN  [user_info |-> got.user_info,
              net |-> <<"POST /2/tweets", answer>> \o got.net,
              ret |-> <<"dict", "success", "True", "tweet_id", id, "url">>
                      \o TweetUrl(got.ret, id) \o <<"username">> \o got.ret]
    ELSE IF answer = "ClientError"
    THEN [user_info |-> self.user_info,
          net |-> <<"POST /2/tweets", answer>>,
          ret |-> <<"dict", "success", "False", "error", answer>>]
    ELSE [user_info |-> self.user_info,
          net |-> <<"POST /2/tweets", answer>>,
          ret |-> <<"dict", "success", "False", "error", "HTTP", answer>>]

\* ------------------------------------------------------------------ OAuth 1.0a signature
\* The characters of the strings that are signed, in ascending order of
\* their code points; Ord(c) is the place of c in that order.
CodePoints ==
    <<" ", "!", "%", "&", "'", "(", ")", "*", "+", "-", ".", "/",
      "0", "1", "2", "3", "5", "6", "7", "8", "9", ":", "=",
      "A", "B", "C", "D", "E", "F", "G", "H", "M", "N", "S", "T", "Z", "_",
      "a", "c", "d", "e", "g", "h", "i", "k", "m", "n", "o", "p", "r", "s",
      "t", "u", "v", "y", "z", "~">>

Ord(c) == CHOOSE i \in 1..Len(CodePoints) : CodePoints[i] = c

\* str < str in Python, and bytes < bytes for ASCII text: the first
\* differing character decides, a proper prefix is smaller
RECURSIVE StrLess(_, _)
StrLess(a, b) ==
    IF b = <<>> THEN FALSE
    ELSE IF a = <<>> THEN TRUE
    ELSE IF Head(a) = Head(b) THEN StrLess(Tail(a), Tail(b))
    ELSE Ord(Head(a)) < Ord(Head(b))

\* urllib.parse.quote: the characters never quoted (letters, digits, _ . - ~)
AlwaysSafe ==
    {"0", "1", "2", "3", "5", "6", "7", "8", "9",
     "A", "B", "C", "D", "E", "F", "G", "H", "M", "N", "S", "T", "Z",
     "a", "c", "d", "e", "g", "h", "i", "k", "m", "n", "o", "p", "r", "s",
     "t", "u", "v", "y", "z", "_", ".", "-", "~"}

\* the two hexadecimal digits of the code point of a quoted character
Hex(c) ==
    CASE c = " " -> <<"2", "0">>
      [] c = "!" -> <<"2", "1">>
      [] c = "%" -> <<"2", "5">>
      [] c = "&" -> <<"2", "6">>
      [] c = "'" -> <<"2", "7">>
      [] c = "(" -> <<"2", "8">>
      [] c = ")" -> <<"2", "9">>
      [] c = "*" -> <<"2", "A">>
      [] c = "+" -> <<"2", "B">>
      [] c = "/" -> <<"2", "F">>
      [] c = ":" -> <<"3", "A">>
      [] c = "=" -> <<"3", "D">>

\* the strings of at most n characters out of chars
RECURSIVE StringsOver(_, _)
StringsOver(chars, n) ==
    IF n = 0 THEN {<<>>}
    ELSE LET shorter == StringsOver(chars, n - 1)
         IN  shorter \cup {Append(x, c) : x \in shorter, c \in chars}

\* str(x) of an optional str
Str(x) == IF x = None THEN <<"N", "o", "n", "e">> ELSE x

\* one character quoted, ! * ' ( ) left as they are
quote_char_keeping_marks(c) ==
    IF c \in AlwaysSafe \cup {"!", "*", "'", "(", ")"} THEN <<c>>
    ELSE <<"%">> \o Hex(c)

\* one character as urllib.parse.quote(string, safe='') gives it
quote_char(c) == IF c \in AlwaysSafe THEN <<c>> ELSE <<"%">> \o Hex(c)

\* the characters lo..hi of the string, quoted
RECURSIVE quote_range(_, _, _)
quote_range(string, lo, hi) ==
    IF lo > hi THEN <<>>
    ELSE IF lo = hi THEN quote_char(string[lo])
    ELSE LET mid == (lo + hi) \div 2
         IN  quote_range(string, lo, mid) \o quote_range(string, mid + 1, hi)

\* urllib.parse.quote(string, safe='')
quote(string) == quote_range(string, 1, Len(string))

\* TwitterDirectAPI._percent_encode
percent_encode(string) == quote(Str(string))

\* method.upper(), for the letters of the methods used
Upper(c) ==
    CASE c = "g" -> "G"
      [] c = "e" -> "E"
      [] c = "t" -> "T"
      [] OTHER -> c

upper(string) == [i \in 1..Len(string) |-> Upper(string[i])]

\* oauth_params, in the order of insertion; time and nonce: what
\* str(int(time.time())) and _generate_nonce() gave
oauth_params(self, time, nonce) ==
    <<[k |-> <<"o", "a", "u", "t", "h", "_", "c", "o", "n", "s", "u", "m", "e", "r", "_", "k", "e", "y">>,
       v |-> self.api_key],
      [k |-> <<"o", "a", "u", "t", "h", "_", "t", "o", "k", "e", "n">>,
       v |-> self.access_token],
      [k |-> <<"o", "a", "u", "t", "h", "_", "s", "i", "g", "n", "a", "t", "u", "r", "e", "_", "m", "e", "t", "h", "o", "d">>,
       v |-> <<"H", "M", "A", "C", "-", "S", "H", "A", "1">>],
      [k |-> <<"o", "a", "u", "t", "h", "_", "t", "i", "m", "e", "s", "t", "a", "m", "p">>,
       v |-> time],
      [k |-> <<"o", "a", "u", "t", "h", "_", "n", "o", "n", "c", "e">>,
       v |-> nonce],
      [k |-> <<"o", "a", "u", "t", "h", "_", "v", "e", "r", "s", "i", "o", "n">>,
       v |-> <<"1", ".", "0">>]>>

\* dict.update with one item: the value of an existing key is replaced in
\* place, a new key is appended
Put(items, item) ==
    IF \E i \in 1..Len(items) : items[i].k = item.k
    THEN [i \in 1..Len(items) |->
            IF items[i].k = item.k THEN item ELSE items[i]]
    ELSE Append(items, item)

\* {**params, **oauth_params}
RECURSIVE Merged(_, _)
Merged(params, more) ==
    IF more = <<>> THEN params
    ELSE Merged(Put(params, Head(more)), Tail(more))

\* (k, v) < (k2, v2) of two items
ItemLess(a, b) == StrLess(a.k, b.k) \/ (a.k = b.k /\ StrLess(Str(a.v), Str(b.v)))

\* the items with their iteration order kept
unsorted(items) == items

\* sorted(all_params.items())
RECURSIVE sorted(_)
sorted(items) ==
    IF Len(items) = 0 THEN <<>>
    ELSE LET m == CHOOSE i \in 1..Len(items) :
                    \A j \in 1..Len(items) : j = i \/ ItemLess(items[i], items[j])
                                             \/ (items[j] = items[i] /\ i < j)
         IN  <<items[m]>>
             \o sorted([j \in 1..(Len(items) - 1) |->
                          IF j < m THEN items[j] ELSE items[j + 1]])

\* '&'.join of the encoded pairs k=v
RECURSIVE param_string(_)
param_string(pairs) ==
    IF Len(pairs) = 0 THEN <<>>
    ELSE Head(pairs).k \o <<"=">> \o Head(pairs).v
         \o (IF Len(pairs) = 1 THEN <<>> ELSE <<"&">> \o param_string(Tail(pairs)))

\* base64 of HMAC-SHA1 of text under key: a function of key and text, kept
\* as a text that names them, written like base64 with + / = among its
\* characters (the key holds no / of its own, so the text names one key and
\* one text only)
hmac_sha1(key, text) == <<"+">> \o key \o <<"/">> \o text \o <<"=">>

\* _create_oauth_signature, the signature mixing in the cached user_info
create_oauth_signature_stateful(self, method, url, params, time, nonce) ==
    LET all_params == sorted(Merged(params, oauth_params(self, time, nonce)))
        pairs == [i \in 1..Len(all_params) |->
                    [k |-> percent_encode(all_params[i].k),
                     v |-> percent_encode(all_params[i].v)]]
        base_string == upper(method) \o <<"&">> \o percent_encode(url) \o <<"&">>
                       \o percent_encode(param_string(pairs))
        signing_key == percent_encode(self.api_secret) \o <<"&">>
                       \o percent_encode(self.access_token_secret)
    IN  [pairs |-> pairs, param_string |-> param_string(pairs),
         base_string |-> base_string, signing_key |-> signing_key,
         signature |-> hmac_sha1(signing_key, base_string \o self.user_info)]

\* _create_oauth_signature: the encoded pairs in their order, the parameter
\* string, the signature base string, the signing key and the signature
create_oauth_signature(self, method, url, params, time, nonce) ==
    LET all_params == sorted(Merged(params, oauth_params(self, time, nonce)))
        pairs == [i \in 1..Len(all_params) |->
                    [k |-> percent_encode(all_params[i].k),
                     v |-> percent_encode(all_params[i].v)]]
        base_string == upper(method) \o <<"&">> \o percent_encode(url) \o <<"&">>
                       \o percent_encode(param_string(pairs))
        signing_key == percent_encode(self.api_secret) \o <<"&">>
                       \o percent_encode(self.access_token_secret)
    IN  [pairs |-> pairs, param_string |-> param_string(pairs),
         base_string |-> base_string, signing_key |-> signing_key,
         signature |-> hmac_sha1(signing_key, base_string)]

\* 'oauth_signature'
SignatureKey ==
    <<"o", "a", "u", "t", "h", "_", "s", "i", "g", "n", "a", "t", "u", "r", "e">>

\* ', '.join of the pairs k="v", each percent-encoded
RECURSIVE header_pairs(_)
header_pairs(items) ==
    IF Len(items) = 0 THEN <<>>
    ELSE percent_encode(Head(items).k) \o <<"=", "\"">>
         \o percent_encode(Head(items).v) \o <<"\"">>
         \o (IF Len(items) = 1 THEN <<>>
             ELSE <<",", " ">> \o header_pairs(Tail(items)))

\* _create_auth_header, every signed parameter put into the header
create_auth_header_of_all(self, method, url, params, time, nonce) ==
    LET made == create_oauth_signature(self, method, url, params, time, nonce)
        signed == Put(Merged(params, oauth_params(self, time, nonce)),
                      [k |-> SignatureKey, v |-> made.signature])
    IN  <<"O", "A", "u", "t", "h", " ">> \o header_pairs(sorted(signed))

\* _create_auth_header: the oauth_params that _create_oauth_signature
\* returns, the signature among them, sorted and joined
create_auth_header(self, method, url, params, time, nonce) ==
    LET made == create_oauth_signature(self, method, url, params, time, nonce)
        signed == Put(oauth_params(self, time, nonce),
                      [k |-> SignatureKey, v |-> made.signature])
    IN  <<"O", "A", "u", "t", "h", " ">> \o header_pairs(sorted(signed))

\* TwitterDirectAPI.__init__
direct_init(api_key, api_secret, access_token, access_token_secret) ==
    [api_key |-> api_key, api_secret |-> api_secret,
     access_token |-> access_token,
     access_token_secret |-> access_token_secret, user_info |-> None]

\* the settings a TwitterDirectAPI is made from: the API key is set (the
\* scheduler makes no TwitterDirectAPI without it), the secrets are optional
DirectSelves ==
    {direct_init(<<"k">>, api_secret, <<"t">>, access_token_secret) :
       api_secret \in {None, <<"s">>},
       access_token_secret \in {None, <<>>, <<"s", "&">>}}

\* the inputs of a signature: method, URL, the parameter dict in its
\* iteration order, the clock reading and the nonce
Methods == {<<"G", "E", "T">>, <<"g", "e", "t">>}
Urls == {<<"h", ":", "/", "t">>}
ParamKeys == {<<"a", "0">>, <<"a", "=">>}
ParamValues == {<<" ">>}
ParamItems == {[k |-> k, v |-> v] : k \in ParamKeys, v \in ParamValues}
ParamDicts ==
    {<<>>} \cup {<<a>> : a \in ParamItems}
    \cup {<<ab[1], ab[2]>> :
             ab \in {x \in ParamItems \X ParamItems : x[1].k # x[2].k}}
SignTimes == {<<"1">>}
Nonces == {<<"n", "+">>}

\* ------------------------------------------------------------------ actions
\* no signature computed yet
NothingSigned ==
    [pairs |-> <<>>, param_string |-> <<>>, base_string |-> <<>>,
     signing_key |-> <<>>, signature |-> <<>>]

\* nothing signed and nothing encoded yet
InitSign ==
    /\ sign_in = [method |-> <<>>, url |-> <<>>, params |-> <<>>,
                  time |-> <<>>, nonce |-> <<>>]
    /\ sign_out = NothingSigned
    /\ enc_in = <<>>
    /\ enc_out = percent_encode(enc_in)
    /\ auth_header = <<>>

\* the tasks that call a TwitterDirectAPI
Tasks == {"t1", "t2"}

\* the tasks that call the ModernSchedulingManager, and the clock readings
Jobs == {"j1", "j2"}
Clock == {0, 10}
Idle == [pc |-> "idle", post |-> 0, queue |-> <<>>]

\* SimpleScheduler.__init__ with no schedule file: no post, no task running
InitSched ==
    /\ scheduled_posts = <<>>
    /\ now = 0
    /\ jobs = [j \in Jobs |-> Idle]
    /\ tweet_calls = <<>>
    /\ successes = {}

\* ------------------------------------------------------------------ FixedApprovalQueue
\* A row of content_items is the tuple of its ten columns in the order of
\* CREATE TABLE: id, content, content_type, status, source, created_at,
\* updated_at, metadata, approval_feedback, rejection_reason.

\* str(uuid.uuid4()) of the n-th add_item: an id not given before
ItemId(n) == [i \in 1..n |-> "i"]
ItemIds == {ItemId(n) : n \in 1..MaxItems}

\* json.dumps(metadata or {}) of add_item, and json.dumps of the metadata of
\* publish_item
EmptyMeta == <<"{", "}">>
DumpMeta(published_url, published_at) ==
    <<"{", "published_url">> \o published_url
    \o <<"published_at">> \o published_at \o <<"}">>

\* json.loads(row[7]) if row[7] else {}
LoadMeta(text) ==
    IF Len(text) < 2 THEN <<"dict">>
    ELSE <<"dict">> \o SubSeq(text, 2, Len(text) - 1)

\* add_item: INSERT of the eight named columns, the two others NULL
add_item(rows, item_id, content, stamp) ==
    Append(rows, <<item_id, content, <<"tweet">>, "pending", <<"manual">>,
                   stamp, stamp, EmptyMeta, None, None>>)

\* _row_to_dict
row_to_dict(row) ==
    [id |-> row[1], content |-> row[2], content_type |-> row[3],
     status |-> row[4], source |-> row[5], created_at |-> row[6],
     updated_at |-> row[7], metadata |-> LoadMeta(row[8]),
     approval_feedback |-> row[9], rejection_reason |-> row[10]]

\* get_item finding no row: None
NoItem ==
    [id |-> None, content |-> None, content_type |-> None, status |-> "None",
     source |-> None, created_at |-> None, updated_at |-> None,
     metadata |-> None, approval_feedback |-> None, rejection_reason |-> None]

\* get_item: SELECT * ... WHERE id = ?, fetchone
get_item(rows, item_id) ==
    IF \A i \in 1..Len(rows) : rows[i][1] # item_id THEN NoItem
    ELSE row_to_dict(rows[CHOOSE i \in 1..Len(rows) :
                            /\ rows[i][1] = item_id
                            /\ \A k \in 1..(i - 1) : rows[k][1] # item_id])

\* approve_item: UPDATE ... SET status = 'approved', approval_feedback = ?,
\* updated_at = ? WHERE id = ?
approve_item(rows, item_id, feedback, stamp) ==
    [i \in 1..Len(rows) |->
        IF rows[i][1] = item_id
        THEN [rows[i] EXCEPT ![4] = "approved", ![9] = feedback, ![7] = stamp]
        ELSE rows[i]]

\* reject_item: UPDATE ... SET status = 'rejected', rejection_reason = ?
reject_item(rows, item_id, reason, stamp) ==
    [i \in 1..Len(rows) |->
        IF rows[i][1] = item_id
        THEN [rows[i] EXCEPT ![4] = "rejected", ![10] = reason, ![7] = stamp]
        ELSE rows[i]]

\* publish_item with an UPDATE that has lost its WHERE clause
publish_item_everywhere(rows, item_id, published_url, stamp) ==
    [i \in 1..Len(rows) |->
        [rows[i] EXCEPT ![4] = "published",
                        ![8] = DumpMeta(published_url, stamp), ![7] = stamp]]

\* publish_item: UPDATE ... SET status = 'published', metadata = ?
publish_item(rows, item_id, published_url, stamp) ==
    [i \in 1..Len(rows) |->
        IF rows[i][1] = item_id
        THEN [rows[i] EXCEPT ![4] = "published",
                             ![8] = DumpMeta(published_url, stamp), ![7] = stamp]
        ELSE rows[i]]

\* the request handlers of the dashboard
Handlers == {"h1", "h2"}
Waiting == [pc |-> "idle", item_id |-> <<>>, item |-> NoItem, url |-> <<>>]

\* FixedApprovalQueue.__init__ on a new database: no row, no request
InitQueue ==
    /\ content_items = <<>>
    /\ web = [h \in Handlers |-> Waiting]
    /\ publish_calls = <<>>

\* no task has started, nothing was drawn or sent
InitApp ==
    /\ tasks = [t \in Tasks |-> "idle"]
    /\ drawn = 0
    /\ requests = <<>>
    /\ InitSched
    /\ InitQueue

\* the publishers that need credentials of their own, constructed without any
InitOthers ==
    /\ fixed = fixed_init(FALSE, NoAccount)
    /\ twitter = twitter_init(FALSE, NoAccount)
    /\ direct = direct_init(<<"k">>, <<"s">>, <<"t">>, <<"s", "&">>)
    /\ InitSign
    /\ InitApp

InitOAuth ==
    \E key \in EnvValues, secret \in EnvValues, file \in InitFiles,
       read \in {"ok", "oserror"}, verify \in VerifyOutcomes,
       saved_at \in Timestamps, w \in WriteOutcomes :
        \E made \in {construct(key, secret, file, read, verify, saved_at, w)} :
            /\ app_api_key = key
            /\ app_api_secret = secret
            /\ auth_handler = made.auth_handler
            /\ request_token = made.request_token
            /\ user_access_token = made.user_access_token
            /\ user_access_secret = made.user_access_secret
            /\ user_info = made.user_info
            /\ client = made.client
            /\ token_file = made.file
            /\ issued = 0
            /\ redeemable = {}
            /\ last_op = "__init__"
            /\ last_args = <<>>
            /\ last_result = None
            /\ net = made.net
            /\ fs = made.fs
            /\ pc = [p \in Procs |-> "idle"]
            /\ buffer = [p \in Procs |-> Unset]
            /\ observed = Unset

Init == InitOAuth /\ InitOthers

\* the process is started again: a new instance, the same environment and
\* file; Reads, Verifies, Times, Writes: what the file system, the provider
\* and the clock may do
RestartWith(Reads, Verifies, Times, Writes) ==
    \E read \in Reads, verify \in Verifies, saved_at \in Times, w \in Writes :
        \E made \in {construct(app_api_key, app_api_secret, token_file,
                              read, verify, saved_at, w)} :
            /\ auth_handler' = made.auth_handler
            /\ request_token' = made.request_token
            /\ user_access_token' = made.user_access_token
            /\ user_access_secret' = made.user_access_secret
            /\ user_info' = made.user_info
            /\ client' = made.client
            /\ token_file' = made.file
            /\ last_op' = "__init__"
            /\ last_args' = <<>>
            /\ last_result' = None
            /\ net' = made.net
            /\ fs' = made.fs
            /\ UNCHANGED <<app_api_key, app_api_secret, issued, redeemable>>
            /\ UNCHANGED <<saveVars, pubVars, signVars, appVars>>

Restart == RestartWith({"ok", "oserror"}, VerifyOutcomes, Timestamps, WriteOutcomes)

\* a call of get_authorization_url(); the provider grants a request token
\* only while it has some left to hand out
GetAuthorizationUrl ==
    \E granted \in BOOLEAN :
        \E rt \in {RequestToken(issued + 1)} :
        \E got \in {get_authorization_url(Self, granted, rt)} :
        \E sent \in {got.net # <<>>} :
            /\ granted => issued < MaxRequestTokens
            /\ request_token' = got.request_token
            /\ issued' = IF sent /\ granted THEN issued + 1 ELSE issued
            /\ redeemable' = IF sent /\ granted THEN redeemable \cup {rt}
                             ELSE redeemable
            /\ last_op' = "get_authorization_url"
            /\ last_args' = <<>>
            /\ last_result' = got.ret
            /\ net' = got.net
            /\ fs' = <<>>
            /\ UNCHANGED <<app_api_key, app_api_secret, user_access_token,
                           user_access_secret, user_info, client, auth_handler,
                           token_file>>
            /\ UNCHANGED <<saveVars, pubVars, signVars, appVars>>

\* a call of complete_authorization(oauth_verifier); the provider accepts the
\* exchange only for a request token it handed out and that was not exchanged
\* yet, presented with the right verifier
CompleteAuthorizationWith(Answers, Verifies, Times, Writes) ==
    \E verifier \in {"good", "bad"}, exchange \in Answers,
       verify \in Verifies, saved_at \in Times, w \in Writes :
        \E done \in {complete_authorization(Self, token_file, exchange, verify,
                                            saved_at, w)} :
        \E accepted \in {done.net # <<>> /\ exchange.ok} :
            /\ exchange.ok => request_token \in redeemable /\ verifier = "good"
            /\ user_access_token' = done.user_access_token
            /\ user_access_secret' = done.user_access_secret
            /\ user_info' = done.user_info
            /\ client' = done.client
            /\ token_file' = done.file
            /\ redeemable' = IF accepted THEN redeemable \ {request_token}
                             ELSE redeemable
            /\ last_op' = "complete_authorization"
            /\ last_args' = <<>>
            /\ last_result' = done.ret
            /\ net' = done.net
            /\ fs' = done.fs
            /\ UNCHANGED <<app_api_key, app_api_secret, auth_handler,
                           request_token, issued>>
            /\ UNCHANGED <<saveVars, pubVars, signVars, appVars>>

CompleteAuthorization ==
    CompleteAuthorizationWith(AccessTokens \cup {Rejected}, VerifyOutcomes,
                              Timestamps, WriteOutcomes)

\* a call of disconnect()
Disconnect ==
    \E remove \in {"ok", "oserror"} :
        \E done \in {disconnect(token_file, remove)} :
            /\ user_access_token' = None
            /\ user_access_secret' = None
            /\ user_info' = None
            /\ client' = None
            /\ token_file' = done.file
            /\ last_op' = "disconnect"
            /\ last_args' = <<>>
            /\ last_result' = done.ret
            /\ net' = <<>>
            /\ fs' = done.fs
            /\ UNCHANGED <<app_api_key, app_api_secret, auth_handler,
                           request_token, issued, redeemable>>
            /\ UNCHANGED <<saveVars, pubVars, signVars, appVars>>

\* a call of publish_tweet(content) that logs the user out when the provider
\* answers 401 or 403: the client is dropped and the token file removed
PublishTweetLoggingOut(Texts, Waits) ==
    \E content \in Texts, verify \in VerifyOutcomes, post \in PostOutcomes,
       id \in TweetIds, waits \in Waits :
        \E done \in {publish_tweet(Self, content, verify, post, id, waits)} :
        \E denied \in {done.net # <<>> /\ post \in {"Forbidden", "Unauthorized"}} :
            /\ user_info' = done.user_info
            /\ client' = IF denied THEN None ELSE client
            /\ token_file' = IF denied THEN ENOENT ELSE token_file
            /\ last_op' = "publish_tweet"
            /\ last_args' = content
            /\ last_result' = done.ret
            /\ net' = done.net
            /\ fs' = <<>>
            /\ UNCHANGED <<app_api_key, app_api_secret, user_access_token,
                           user_access_secret, auth_handler,
                           request_token, issued, redeemable>>
            /\ UNCHANGED <<saveVars, pubVars, signVars, appVars>>

\* a call of publish_tweet(content), the content one of Texts and the
\* provider rate-limiting the call one of Waits times
PublishTweetWith(Texts, Waits) ==
    \E content \in Texts, verify \in VerifyOutcomes, post \in PostOutcomes,
       id \in TweetIds, waits \in Waits :
        \E done \in {publish_tweet(Self, content, verify, post, id, waits)} :
            /\ user_info' = done.user_info
            /\ last_op' = "publish_tweet"
            /\ last_args' = content
            /\ last_result' = done.ret
            /\ net' = done.net
            /\ fs' = <<>>
            /\ UNCHANGED <<app_api_key, app_api_secret, user_access_token,
                           user_access_secret, client, auth_handler,
                           request_token, token_file, issued, redeemable>>
            /\ UNCHANGED <<saveVars, pubVars, signVars, appVars>>

\* short texts, and a provider that has calls left
PublishTweet == PublishTweetWith({<<>>, <<"a">>}, {0})

vars == <<app_api_key, app_api_secret, user_access_token, user_access_secret,
          user_info, client, auth_handler, request_token, token_file,
          issued, redeemable, last_op, last_result, net, fs,
          pc, buffer, observed, last_args, fixed, twitter, direct,
          sign_in, sign_out, enc_in, enc_out, auth_header,
          tasks, drawn, requests,
          scheduled_posts, now, jobs, tweet_calls, successes,
          content_items, web, publish_calls>>

Next ==
    \/ Restart
    \/ GetAuthorizationUrl
    \/ CompleteAuthorization
    \/ Disconnect
    \/ PublishTweet

Spec == Init /\ [][Next]_vars

\* ------------------------------------------------------------------ states of the flow
\* UNAUTHENTICATED: no request token, no access token, no client
Unauthenticated ==
    /\ request_token = Unset
    /\ user_access_token = None
    /\ user_access_secret = None
    /\ client = None

\* is_connected()
Connected == client # None /\ user_info # None

\* the file `file` parses to an object holding the token tok and the secret sec
Stored(file, tok, sec) ==
    /\ file # ENOENT
    /\ Loads(file).ok
    /\ IsDict(Loads(file).val)
    /\ Get(Loads(file).val, "access_token", TopKeys) = tok
    /\ Get(Loads(file).val, "access_token_secret", TopKeys) = sec

\* ------------------------------------------------------------------ claims
\* C1: complete_authorization called while no get_authorization_url() has
\* succeeded (no request token is stored) returns False, sends nothing to the
\* provider and changes neither the publisher nor the token file nor what the
\* provider holds; in particular an UNAUTHENTICATED publisher stays so.
C1_CompleteWithoutRequestToken ==
    [][(last_op' = "complete_authorization" /\ request_token = Unset)
       => /\ last_result' = PyFalse
          /\ net' = <<>>
          /\ fs' = <<>>
          /\ UNCHANGED <<oauthVars, token_file, providerVars>>
          /\ (Unauthenticated => Unauthenticated')]_vars

\* a handler exists, nothing is stored, and the call was refused
C1_Witness ==
    /\ last_op = "complete_authorization"
    /\ auth_handler # None
    /\ Unauthenticated
    /\ token_file = ENOENT
    /\ last_result = PyFalse

\* C2: right after a complete_authorization that returned True, a further
\* complete_authorization returns False and sends no access-token exchange
\* (the request token was discarded).
C2_NoSecondExchange ==
    [][(/\ last_op = "complete_authorization"
        /\ last_result = PyTrue
        /\ last_op' = "complete_authorization")
       => (last_result' = PyFalse /\ net' = <<>>)]_vars

\* C3: a complete_authorization whose exchange the provider rejected returns
\* False and leaves no request token stored, and a complete_authorization
\* right after it is refused without a request to the provider.
C3_RejectedExchangeResets ==
    [][/\ (last_op' = "complete_authorization" /\ net' = <<"access_token:fail">>)
          => (last_result' = PyFalse /\ request_token' = Unset)
       /\ (/\ last_op = "complete_authorization"
           /\ net = <<"access_token:fail">>
           /\ last_op' = "complete_authorization")
          => (last_result' = PyFalse /\ net' = <<>>)]_vars

\* C4: a get_authorization_url() that fails in state UNAUTHENTICATED (no
\* handler, or the request-token endpoint rejects) returns None and changes
\* nothing: the state is still UNAUTHENTICATED, and a complete_authorization
\* right after it returns False without a request to the provider.
C4_FailedUrlStaysUnauthenticated ==
    [][/\ (/\ last_op' = "get_authorization_url"
           /\ last_result' = None
           /\ Unauthenticated)
          => (Unauthenticated' /\ UNCHANGED <<oauthVars, token_file, providerVars>>)
       /\ (/\ last_op = "get_authorization_url"
           /\ last_result = None
           /\ Unauthenticated
           /\ last_op' = "complete_authorization")
          => (last_result' = PyFalse /\ net' = <<>> /\ Unauthenticated')]_vars

\* the request-token endpoint rejected the call of an UNAUTHENTICATED publisher
C4_Witness ==
    /\ last_op = "get_authorization_url"
    /\ last_result = None
    /\ net = <<"request_token:fail">>
    /\ Unauthenticated

StoreTokens ==
    {[ok |-> TRUE, token |-> s, secret |-> <<"a", Quote>>] : s \in Strings}
    \cup {[ok |-> TRUE, token |-> <<Backslash>>, secret |-> s] : s \in Strings}

StoreInit ==
    /\ Init
    /\ app_api_key # None
    /\ app_api_secret # None
    /\ token_file = ENOENT

\* one account, one clock reading, a disk that takes every write, and a
\* verify_credentials() that fails only at a restart
StoreVerifies == {v \in VerifyOutcomes : v.username # <<"a">>}

StoreNext ==
    \/ GetAuthorizationUrl
    \/ CompleteAuthorizationWith(StoreTokens \cup {Rejected},
                                 StoreVerifies \cap Accounts, {<<"1">>}, {"ok"})
    \/ RestartWith({"ok", "oserror"}, StoreVerifies, {<<"1">>}, {"ok"})
    \/ Disconnect

SpecStore == StoreInit /\ [][StoreNext]_vars

\* C6: round trip of the token store. A construction (load) right after a
\* call that saved the token file successfully, reading the file without an
\* OS error, yields the token and the secret that were saved; a construction
\* right after a disconnect that returned True yields no token.
C6_StoreRoundTrip ==
    [][/\ (/\ fs # <<>> /\ fs[Len(fs)] = "write:ok"
           /\ last_op' = "__init__"
           /\ fs' # <<>> /\ fs'[1] = "read:ok")
          => /\ user_access_token' = user_access_token
             /\ user_access_secret' = user_access_secret
       /\ (/\ last_op = "disconnect" /\ last_result = PyTrue
           /\ last_op' = "__init__")
          => /\ user_access_token' = None
             /\ user_access_secret' = None
             /\ fs' = <<>>]_vars

\* a token with a quote and a backslash came back from the file
C6_Witness ==
    /\ last_op = "__init__"
    /\ user_access_token = <<Quote, Backslash>>
    /\ user_access_secret = <<"a", Quote>>
    /\ fs # <<>> /\ fs[1] = "read:ok"

\* ------------------------------------------------------------------ _save_user_tokens, step by step
\* Two processes run a publisher on the same data directory. A save is two
\* steps: open(..., 'w') creates or truncates the file; json.dump fills the
\* buffer of f and leaving the with block writes the buffer out at the offset
\* of f, which is 0. No lock is taken, and a process may die in between.

\* the texts the processes save
SaveTexts == {Dumps(t.token, t.secret, UserInfo(a.username, a.name), <<"1">>) :
                t \in AccessTokens, a \in Accounts}

\* a file as a save leaves it when nothing interferes, or no file
WholeFiles == {ENOENT} \cup SaveTexts

\* write(2) of `text` at offset 0 of a file holding `file`: the text replaces
\* the first Len(text) symbols, what lies beyond them stays
WriteAt0(file, text) == text \o SubSeq(file, Len(text) + 1, Len(file))

\* with open('data/twitter_user_tokens.json', 'w') as f
SaveOpen(p) ==
    /\ pc[p] = "idle"
    /\ \E text \in SaveTexts : buffer' = [buffer EXCEPT ![p] = text]
    /\ token_file' = <<>>
    /\ pc' = [pc EXCEPT ![p] = "opened"]
    /\ UNCHANGED <<observed, oauthVars, providerVars, callVars, pubVars, signVars, appVars>>

\* json.dump(tokens, f, indent=2) and the end of the with block
SaveClose(p) ==
    /\ pc[p] = "opened"
    /\ token_file' = WriteAt0(token_file, buffer[p])
    /\ pc' = [pc EXCEPT ![p] = "idle"]
    /\ UNCHANGED <<buffer, observed, oauthVars, providerVars, callVars, pubVars, signVars, appVars>>

\* the process dies inside the with block: the first k symbols of its text
\* have reached the file, k = 0 when the buffer was never written out
SaveCrash(p) ==
    /\ pc[p] = "opened"
    /\ \E k \in 0..(Len(buffer[p]) - 1) :
           token_file' = WriteAt0(token_file, SubSeq(buffer[p], 1, k))
    /\ pc' = [pc EXCEPT ![p] = "crashed"]
    /\ UNCHANGED <<buffer, observed, oauthVars, providerVars, callVars, pubVars, signVars, appVars>>

\* _load_user_tokens of a process that is not saving: json.load(f) reads
\* the file as it is
LoadFile(p) ==
    /\ pc[p] = "idle"
    /\ observed' = token_file
    /\ UNCHANGED <<pc, buffer, token_file, oauthVars, providerVars, callVars, pubVars, signVars, appVars>>

SaveInit == StoreInit

SaveNext ==
    \E p \in Procs :
        \/ SaveOpen(p)
        \/ SaveClose(p)
        \/ SaveCrash(p)
        \/ LoadFile(p)

SpecSave == SaveInit /\ [][SaveNext]_vars

NoCrash == \A q \in Procs : pc[q] # "crashed"

\* C7: a save never truncates the token file in place (opening it leaves the
\* file as it was), and a process that dies during a save leaves the token
\* file whole: absent, or a complete saved text, never empty or half-written.
C7_AtomicSave ==
    [][\A p \in Procs :
         /\ (pc[p] = "idle" /\ pc'[p] = "opened") => token_file' = token_file
         /\ (pc[p] = "opened" /\ pc'[p] = "crashed")
            => token_file' \in WholeFiles]_vars

\* C9: without a crash, once both processes are done saving the token file
\* holds exactly the text of one of their saves, and a load never reads a
\* file that is empty, partial or mixed.
C9_SerializedSaves ==
    NoCrash
    => /\ ((\A q \in Procs : pc[q] = "idle" /\ buffer[q] # Unset)
           => token_file \in {buffer[q] : q \in Procs})
       /\ observed \in {Unset} \cup WholeFiles

\* files that hold no JSON object: empty, cut off, or the JSON value null
BrokenFiles == {<<>>, <<"null">>} \cup CutOffFiles

\* C8: a construction that finds the token file missing, cannot open it, or
\* finds no JSON object in it, loads nothing: no access token, no secret, no
\* user info, no client, not connected, no request to the provider, the file
\* left as it is - the state of a fresh UNAUTHENTICATED publisher.
C8_BrokenFileLoadsNothing ==
    [][(/\ last_op' = "__init__"
        /\ \/ token_file = ENOENT
           \/ fs' = <<"read:oserror">>
           \/ token_file \in BrokenFiles
           \/ ~Loads(token_file).ok)
       => /\ Unauthenticated'
          /\ user_info' = None
          /\ ~Connected'
          /\ net' = <<>>
          /\ token_file' = token_file]_vars

\* a restart found a cut-off file and came up UNAUTHENTICATED
C8_Witness ==
    /\ last_op = "__init__"
    /\ token_file \in CutOffFiles
    /\ fs = <<"read:ok">>
    /\ Unauthenticated
    /\ issued > 0

\* ------------------------------------------------------------------ the publishing clients
\* a call of TwitterOAuthPublisher.get_user_info()
GetUserInfo ==
    \E verify \in VerifyOutcomes :
        \E got \in {get_user_info(Self, verify)} :
            /\ user_info' = got.user_info
            /\ last_op' = "get_user_info"
            /\ last_args' = <<>>
            /\ last_result' = got.ret
            /\ net' = got.net
            /\ fs' = <<>>
            /\ UNCHANGED <<app_api_key, app_api_secret, user_access_token,
                           user_access_secret, client, auth_handler,
                           request_token, token_file, issued, redeemable>>
            /\ UNCHANGED <<saveVars, pubVars, signVars, appVars>>

\* a call of TwitterDirectAPI.post_tweet(content)
PostTweet ==
    \E content \in Contents, answer \in PostAnswers, id \in TweetIds,
       me \in MeAnswers, account \in Accounts :
        \E done \in {post_tweet(direct, content, answer, id, me, account)} :
            /\ direct' = [direct EXCEPT !.user_info = done.user_info]
            /\ last_op' = "post_tweet"
            /\ last_args' = content
            /\ last_result' = done.ret
            /\ net' = done.net
            /\ fs' = <<>>
            /\ UNCHANGED <<oauthVars, token_file, providerVars, saveVars,
                           fixed, twitter, signVars, appVars>>

\* a call of TwitterDirectAPI.get_user_info()
DirectGetUserInfo ==
    \E me \in MeAnswers, account \in Accounts :
        \E got \in {direct_get_user_info(direct, me, account)} :
            /\ direct' = [direct EXCEPT !.user_info = got.user_info]
            /\ last_op' = "TwitterDirectAPI.get_user_info"
            /\ last_args' = <<>>
            /\ last_result' = got.ret
            /\ net' = got.net
            /\ fs' = <<>>
            /\ UNCHANGED <<oauthVars, token_file, providerVars, saveVars,
                           fixed, twitter, signVars, appVars>>

\* The OAuth publisher, as it came up from the token file, and the
\* TwitterDirectAPI of one process: their publish and profile calls.
ClientInit ==
    /\ Init
    /\ app_api_key # None
    /\ app_api_secret # None
    /\ token_file \in {ENOENT} \cup SavedFiles

ClientNext ==
    \/ PublishTweetWith(Contents, 0..MaxRateLimitWaits)
    \/ GetUserInfo
    \/ PostTweet
    \/ DirectGetUserInfo

SpecClient == ClientInit /\ [][ClientNext]_vars

\* the "success" entry of a publish result
Success(result) == Get(result, "success", ResultKeys)

\* the publish requests in the log of a call
Posts(log) ==
    {i \in 1..Len(log) :
       log[i] \in {"update_status:ok", "update_status:429", "update_status:403",
                   "update_status:401", "update_status:error", "POST /2/tweets"}}

\* C11: a publish call with an empty text, or a text longer than TweetLimit,
\* returns a failure and sends no request to the provider.
C11_InvalidTextSendsNothing ==
    [][(/\ last_op' \in {"publish_tweet", "post_tweet"}
        /\ (Len(last_args') = 0 \/ Len(last_args') > TweetLimit))
       => (Success(last_result') = PyFalse /\ net' = <<>>)]_vars

\* C12: a publish call that the provider answers with 401 or 403 returns a
\* failure carrying an error, and leaves the token file, the access token,
\* the secret and the client of the OAuth publisher, and the credentials of
\* the TwitterDirectAPI, as they were.
C12_AuthErrorKeepsToken ==
    [][(\/ /\ last_op' = "publish_tweet"
           /\ Len(net') > 0
           /\ net'[Len(net')] \in {"update_status:401", "update_status:403"}
        \/ /\ last_op' = "post_tweet"
           /\ net' \in {<<"POST /2/tweets", "401">>, <<"POST /2/tweets", "403">>})
       => /\ Success(last_result') = PyFalse
          /\ Get(last_result', "error", ResultKeys) # None
          /\ UNCHANGED <<token_file, user_access_token, user_access_secret,
                         client, direct>>]_vars

\* a connected publisher with its token on disk was answered 401
C12_Witness ==
    /\ last_op = "publish_tweet"
    /\ net # <<>> /\ net[Len(net)] = "update_status:401"
    /\ client # None
    /\ Stored(token_file, user_access_token, user_access_secret)

\* C13: one publish call sends at most one publish request, and a call that
\* was answered 429 returns a failure.
C13_NoAutomaticRetry ==
    [][(last_op' \in {"publish_tweet", "post_tweet"})
       => /\ Cardinality(Posts(net')) <= 1
          /\ (\E i \in 1..Len(net') : net'[i] \in {"update_status:429", "429"})
             => Success(last_result') = PyFalse]_vars

\* C14: every call whose request to the provider failed, or whose token file
\* operation failed, returns a failure value: None from get_authorization_url,
\* False from complete_authorization and disconnect, success = False from
\* publish_tweet.
C14_FailuresAreReported ==
    [][/\ (last_op' = "get_authorization_url" /\ net' = <<"request_token:fail">>)
          => last_result' = None
       /\ (/\ last_op' = "complete_authorization"
           /\ \/ \E i \in 1..Len(net') :
                    net'[i] \in {"access_token:fail", "verify_credentials:fail"}
              \/ \E i \in 1..Len(fs') :
                    fs'[i] \in {"write:open_fails", "write:write_fails"})
          => last_result' = PyFalse
       /\ (last_op' = "disconnect" /\ fs' = <<"remove:oserror">>)
          => last_result' = PyFalse
       /\ (/\ last_op' = "publish_tweet"
           /\ net' # <<>> /\ net'[Len(net')] # "update_status:ok")
          => Success(last_result') = PyFalse]_vars

\* ------------------------------------------------------------------ the publishers with a simulation mode
\* a call of FixedTwitterPublisher.publish_tweet(content)
FixedPublishTweet ==
    \E content \in Contents, post \in PostOutcomes, account \in Accounts,
       id \in TweetIds, fake_id \in FakeIds, waits \in 0..MaxRateLimitWaits :
        \E done \in {fixed_publish_tweet(fixed, content, post, account, id,
                                         fake_id, waits)} :
            /\ last_op' = "FixedTwitterPublisher.publish_tweet"
            /\ last_args' = content
            /\ last_result' = done.ret
            /\ net' = done.net
            /\ fs' = <<>>
            /\ UNCHANGED <<oauthVars, token_file, providerVars, saveVars,
                           pubVars, signVars, appVars>>

\* a call of TwitterPublisher.publish_tweet(content)
TwitterPublishTweet ==
    \E content \in Contents, post \in ClientOutcomes, id \in TweetIds,
       fake_id \in FakeIds, waits \in 0..MaxRateLimitWaits :
        \E done \in {twitter_publish_tweet(twitter, content, post, id,
                                           fake_id, waits)} :
            /\ last_op' = "TwitterPublisher.publish_tweet"
            /\ last_args' = content
            /\ last_result' = done.ret
            /\ net' = done.net
            /\ fs' = <<>>
            /\ UNCHANGED <<oauthVars, token_file, providerVars, saveVars,
                           pubVars, signVars, appVars>>

\* the two publishers as their environment and the provider made them:
\* without credentials, with credentials the provider accepts, with
\* credentials it rejects
SimulateInit ==
    /\ InitOAuth
    /\ app_api_key # None
    /\ app_api_secret # None
    /\ token_file = ENOENT
    /\ fixed \in {fixed_init(has, verify) :
                    has \in BOOLEAN, verify \in VerifyOutcomes}
    /\ twitter \in {twitter_init(has, me) :
                      has \in BOOLEAN, me \in VerifyOutcomes}
    /\ direct = direct_init(<<"k">>, <<"s">>, <<"t">>, <<"s", "&">>)
    /\ InitSign
    /\ InitApp

SimulateNext ==
    \/ FixedPublishTweet
    \/ TwitterPublishTweet

SpecSimulate == SimulateInit /\ [][SimulateNext]_vars

\* C15: a publisher that has credentials which the provider rejected does
\* not answer a publish call with a success: FixedTwitterPublisher whose
\* verify_credentials() failed, and TwitterPublisher whose create_tweet is
\* answered 401, return success = False.
C15_RejectedIsNotSimulated ==
    [][/\ (/\ last_op' = "FixedTwitterPublisher.publish_tweet"
           /\ fixed.has_credentials
           /\ ~fixed.connected)
          => Success(last_result') = PyFalse
       /\ (/\ last_op' = "TwitterPublisher.publish_tweet"
           /\ twitter.client # None
           /\ net' # <<>> /\ net'[Len(net')] = "create_tweet:401")
          => Success(last_result') = PyFalse]_vars

\* ------------------------------------------------------------------ the signature engine
\* a call of _create_oauth_signature(method, url, params), the clock and the
\* nonce generator giving time and nonce
Sign ==
    \E method \in Methods, url \in Urls, params \in ParamDicts,
       time \in SignTimes, nonce \in Nonces :
        \E made \in {create_oauth_signature(direct, method, url, params,
                                            time, nonce)} :
            /\ sign_in' = [method |-> method, url |-> url, params |-> params,
                           time |-> time, nonce |-> nonce]
            /\ sign_out' = made
            /\ last_op' = "_create_oauth_signature"
            /\ last_args' = <<>>
            /\ last_result' = made.signature
            /\ net' = <<>>
            /\ fs' = <<>>
            /\ UNCHANGED <<oauthVars, token_file, providerVars, saveVars,
                           pubVars, enc_in, enc_out, auth_header, appVars>>

\* a call of _create_auth_header(method, url, params): it signs, and joins
\* the header
CreateAuthHeader ==
    \E method \in Methods, url \in Urls, params \in ParamDicts,
       time \in SignTimes, nonce \in Nonces :
        \E made \in {create_oauth_signature(direct, method, url, params,
                                            time, nonce)},
           header \in {create_auth_header(direct, method, url, params,
                                          time, nonce)} :
            /\ sign_in' = [method |-> method, url |-> url, params |-> params,
                           time |-> time, nonce |-> nonce]
            /\ sign_out' = made
            /\ auth_header' = header
            /\ last_op' = "_create_auth_header"
            /\ last_args' = <<>>
            /\ last_result' = header
            /\ net' = <<>>
            /\ fs' = <<>>
            /\ UNCHANGED <<oauthVars, token_file, providerVars, saveVars,
                           pubVars, enc_in, enc_out, appVars>>

\* a TwitterDirectAPI made from any settings
SignInit ==
    /\ InitOAuth
    /\ app_api_key # None
    /\ app_api_secret # None
    /\ token_file = ENOENT
    /\ fixed = fixed_init(FALSE, NoAccount)
    /\ twitter = twitter_init(FALSE, NoAccount)
    /\ direct \in DirectSelves
    /\ InitSign
    /\ InitApp

SignNext ==
    \/ Sign
    \/ DirectGetUserInfo

SpecSign == SignInit /\ [][SignNext]_vars

Signed == last_op = "_create_oauth_signature"

\* the headers a TwitterDirectAPI makes, between its profile calls
HeaderNext ==
    \/ CreateAuthHeader
    \/ DirectGetUserInfo

SpecHeader == SignInit /\ [][HeaderNext]_vars

\* the strings handed to _percent_encode
EncChars == {"A", "-", "~", "!", "*", "'", "(", ")", " ", "+"}
EncStrings == StringsOver(EncChars, MaxEncLen)

\* a call of _percent_encode(string)
Encode ==
    \E string \in EncStrings :
        /\ enc_in' = string
        /\ enc_out' = percent_encode(string)
        /\ UNCHANGED <<oauthVars, token_file, providerVars, callVars, saveVars,
                       pubVars, sign_in, sign_out, auth_header, appVars>>

\* one TwitterDirectAPI that has encoded the empty string
EncodeInit ==
    /\ SignInit
    /\ direct = direct_init(<<"k">>, <<"s">>, <<"t">>, <<"s", "&">>)

EncodeNext == Encode

SpecEncode == EncodeInit /\ [][EncodeNext]_vars

Unreserved == AlwaysSafe \cup {"_", ".", "-", "~"}
Marks == {"!", "*", "'", "(", ")"}

\* C17: _percent_encode leaves a string of unreserved characters alone,
\* writes a space as %20 and never as +, and writes each of ! * ' ( ) as a
\* three-character %XX escape, so that none of them is left in the output
C17_EncodingIsStrict ==
    enc_in # None =>
        /\ \A i \in 1..Len(enc_out) : enc_out[i] \notin Marks \cup {" ", "+"}
        /\ (\A i \in 1..Len(enc_in) : enc_in[i] \in Unreserved)
               => enc_out = enc_in
        /\ enc_in = <<" ">> => enc_out = <<"%", "2", "0">>
        /\ \A c \in Marks :
               enc_in = <<c>> => Len(enc_out) = 3 /\ enc_out[1] = "%"
        /\ Len(enc_out) = Len(enc_in)
               + 2 * Cardinality({i \in 1..Len(enc_in) :
                                     enc_in[i] \notin Unreserved})

\* a mark and a space were encoded
C17_Witness ==
    /\ enc_in = <<"!", " ">>
    /\ enc_out = <<"%", "2", "1", "%", "2", "0">>

\* the items of a dict, whatever their order
Items(params) == {params[i] : i \in 1..Len(params)}

\* C18: signing the same parameters given in another order gives the same
\* parameter string and the same signature
C18_OrderIndependent ==
    [][(/\ last_op' = "_create_oauth_signature"
        /\ sign_out # NothingSigned
        /\ Items(sign_in'.params) = Items(sign_in.params)
        /\ sign_in'.params # sign_in.params
        /\ [sign_in' EXCEPT !.params = <<>>] = [sign_in EXCEPT !.params = <<>>])
       => /\ sign_out'.param_string = sign_out.param_string
          /\ sign_out'.base_string = sign_out.base_string
          /\ sign_out'.signature = sign_out.signature]_vars

\* parameters were given with the larger key first
C18_Witness ==
    /\ Signed
    /\ Len(sign_in.params) = 2
    /\ StrLess(sign_in.params[2].k, sign_in.params[1].k)
    /\ sign_out.signature # <<>>

\* C19: with no token secret the signing key is the percent-encoded consumer
\* secret, an ampersand, and nothing after it
C19_AbsentSecretIsEmpty ==
    (/\ Signed
     /\ direct.api_secret # None
     /\ direct.access_token_secret \in {None, <<>>})
        => sign_out.signing_key = percent_encode(direct.api_secret) \o <<"&">>

\* C20: the pairs of the parameter string ascend by percent-encoded key, and
\* by percent-encoded value where the keys are equal
C20_SortedByEncodedKey ==
    Signed =>
        \A i, j \in 1..Len(sign_out.pairs) :
            i < j =>
                \/ StrLess(sign_out.pairs[i].k, sign_out.pairs[j].k)
                \/ /\ sign_out.pairs[i].k = sign_out.pairs[j].k
                   /\ ~ StrLess(sign_out.pairs[j].v, sign_out.pairs[i].v)

\* the places of the header where a key ends: =" follows
KeyEnds(header) ==
    {i \in 1..(Len(header) - 2) : header[i + 1] = "=" /\ header[i + 2] = "\""}

\* the key that ends at place i: the characters after the last space before it
KeyAt(header, i) ==
    LET spaces == {j \in 1..i : header[j] = " "}
        from == (CHOOSE j \in spaces : \A other \in spaces : other <= j) + 1
    IN  SubSeq(header, from, i)

\* the value of the key that ends at place i: the characters between the
\* quotation marks that follow
ValueAt(header, i) ==
    LET marks == {j \in (i + 3)..Len(header) : header[j] = "\""}
        to == (CHOOSE j \in marks : \A other \in marks : j <= other) - 1
    IN  SubSeq(header, i + 3, to)

StartsWith(string, prefix) ==
    /\ Len(string) >= Len(prefix)
    /\ SubSeq(string, 1, Len(prefix)) = prefix

HeaderKeys(header) == {KeyAt(header, i) : i \in KeyEnds(header)}

\* C21: the Authorization header is "OAuth " and then key="value" pairs in
\* ascending key order, the values percent-encoded; every key is an oauth_
\* parameter, oauth_signature is among them, and no other parameter that was
\* signed is in it
C21_HeaderCarriesOnlyOAuth ==
    last_op = "_create_auth_header" =>
        /\ StartsWith(auth_header, <<"O", "A", "u", "t", "h", " ">>)
        /\ \A i \in KeyEnds(auth_header) :
              /\ StartsWith(KeyAt(auth_header, i),
                            <<"o", "a", "u", "t", "h", "_">>)
              /\ \A j \in 1..Len(ValueAt(auth_header, i)) :
                     ValueAt(auth_header, i)[j] \in Unreserved \cup {"%"}
              /\ \A j \in KeyEnds(auth_header) :
                     i < j => StrLess(KeyAt(auth_header, i), KeyAt(auth_header, j))
        /\ SignatureKey \in HeaderKeys(auth_header)
        /\ Cardinality(KeyEnds(auth_header)) = 7
        /\ \A n \in 1..Len(sign_in.params) :
               percent_encode(sign_in.params[n].k) \notin HeaderKeys(auth_header)
        /\ ValueAt(auth_header, CHOOSE i \in KeyEnds(auth_header) :
                                    KeyAt(auth_header, i) = SignatureKey)
               = percent_encode(sign_out.signature)

\* a header was made for a request with two parameters of its own
C21_Witness ==
    /\ last_op = "_create_auth_header"
    /\ Len(sign_in.params) = 2
    /\ Len(auth_header) > 6

\* ------------------------------------------------------------------ signed requests of concurrent tasks
\* _generate_nonce: 32 bytes of secrets.token_bytes, base64; the operating
\* system's generator is taken to give a value it has not given before, the
\* draw after n draws being named n + 1
generate_nonce(n) == n + 1

\* a request signed with the nonce of an earlier header, nothing drawn
sign_request_reusing(n, task, call, within) ==
    [drawn |-> n,
     request |-> [task |-> task, call |-> call, within |-> within, nonce |-> n]]

\* _create_auth_header for one request: _create_oauth_signature draws the
\* nonce of this header, and the request goes out with it
sign_request(n, task, call, within) ==
    [drawn |-> generate_nonce(n),
     request |-> [task |-> task, call |-> call, within |-> within,
                  nonce |-> generate_nonce(n)]]

\* a task calls post_tweet: the header is made and the POST is sent, the task
\* waits for the response
TaskPostTweet(t) ==
    /\ tasks[t] = "idle"
    /\ drawn + 2 <= MaxNonces
    /\ \E made \in {sign_request(drawn, t, "POST /2/tweets", "post_tweet")} :
        /\ drawn' = made.drawn
        /\ requests' = Append(requests, made.request)
    /\ tasks' = [tasks EXCEPT ![t] = "post:sent"]
    /\ UNCHANGED <<oauthVars, token_file, providerVars, callVars, saveVars,
                   pubVars, signVars, schedVars, queueVars>>

\* the response of the POST arrives: with 201 and no cached username,
\* _get_username calls get_user_info, which signs and sends a GET
TaskPostAnswered(t) ==
    /\ tasks[t] = "post:sent"
    /\ \E answer \in PostAnswers :
        IF answer = "201" /\ Falsy(direct.user_info)
        THEN \E made \in {sign_request(drawn, t, "GET /2/users/me", "post_tweet")} :
                /\ drawn' = made.drawn
                /\ requests' = Append(requests, made.request)
                /\ tasks' = [tasks EXCEPT ![t] = "me:sent:post"]
        ELSE /\ tasks' = [tasks EXCEPT ![t] = "idle"]
             /\ UNCHANGED <<drawn, requests>>
    /\ UNCHANGED <<oauthVars, token_file, providerVars, callVars, saveVars,
                   pubVars, signVars, schedVars, queueVars>>

\* a task calls get_user_info: the header is made and the GET is sent
TaskGetUserInfo(t) ==
    /\ tasks[t] = "idle"
    /\ drawn + 1 <= MaxNonces
    /\ \E made \in {sign_request(drawn, t, "GET /2/users/me", "get_user_info")} :
        /\ drawn' = made.drawn
        /\ requests' = Append(requests, made.request)
    /\ tasks' = [tasks EXCEPT ![t] = "me:sent"]
    /\ UNCHANGED <<oauthVars, token_file, providerVars, callVars, saveVars,
                   pubVars, signVars, schedVars, queueVars>>

\* the response of the GET arrives: get_user_info caches the profile, and
\* _get_username, when it made the call, caches the username over it
TaskMeAnswered(t) ==
    /\ tasks[t] \in {"me:sent", "me:sent:post"}
    /\ \E answer \in MeAnswers, account \in Accounts :
        \E got \in {direct_get_user_info(direct, answer, account)} :
            direct' = [direct EXCEPT !.user_info =
                          IF answer = "200" /\ tasks[t] = "me:sent:post"
                          THEN <<"dict", "username">> \o account.username
                          ELSE got.user_info]
    /\ tasks' = [tasks EXCEPT ![t] = "idle"]
    /\ UNCHANGED <<oauthVars, token_file, providerVars, callVars, saveVars,
                   fixed, twitter, signVars, drawn, requests,
                   schedVars, queueVars>>

NonceNext ==
    \E t \in Tasks :
        \/ TaskPostTweet(t)
        \/ TaskPostAnswered(t)
        \/ TaskGetUserInfo(t)
        \/ TaskMeAnswered(t)

SpecNonce == EncodeInit /\ [][NonceNext]_vars

\* C22: no two signed requests carry the same nonce, and every request sent
\* has drawn a nonce of its own
C22_NoNonceTwice ==
    /\ \A i, j \in 1..Len(requests) :
           i # j => requests[i].nonce # requests[j].nonce
    /\ Len(requests) = drawn

\* two tasks have requests in flight, one of them the profile call made
\* inside a publish, after an earlier request
C22_Witness ==
    /\ Len(requests) >= 3
    /\ \A t \in Tasks : tasks[t] # "idle"
    /\ \E t \in Tasks : tasks[t] = "me:sent:post"

\* the text holds the string sub, character after character
Occurs(sub, text) ==
    \E i \in 1..(Len(text) - Len(sub) + 1) :
        SubSeq(text, i, i + Len(sub) - 1) = sub

\* C23: a token file the publisher has written is one JSON object whose
\* members are access_token, access_token_secret, user_info and saved_at, and
\* neither the consumer key nor the consumer secret of the app is in its text
C23_AppCredentialsNotPersisted ==
    [][(\E i \in 1..Len(fs') : fs'[i] = "write:ok")
       => /\ token_file' # ENOENT
          /\ \E doc \in {Loads(token_file')} :
                 /\ doc.ok
                 /\ IsDict(doc.val)
                 /\ \A k \in TopKeys : KeyPositions(doc.val, k) # {}
          /\ \A i \in 1..Len(token_file') :
                 token_file'[i] \in Keys => token_file'[i] \in TopKeys \cup InfoKeys
          /\ app_api_key' # None => ~ Occurs(app_api_key', token_file')
          /\ app_api_secret' # None => ~ Occurs(app_api_secret', token_file')]_vars

\* an authorization of a configured app was completed and the token saved
C23_Witness ==
    /\ last_op = "complete_authorization"
    /\ app_api_key # None
    /\ app_api_secret # None
    /\ fs = <<"write:ok">>
    /\ Stored(token_file, user_access_token, user_access_secret)

\* C24: a successful publish that was sent to the provider returns the id
\* the provider gave and the URL https://twitter.com/<username>/status/<id>,
\* <username> being the username of an account of the provider
C24_UrlNamesTheAccount ==
    (/\ last_op \in {"publish_tweet", "post_tweet"}
     /\ Success(last_result) = PyTrue
     /\ Posts(net) # {})
        => \E account \in Accounts, id \in TweetIds :
              /\ Get(last_result, "tweet_id", ResultKeys) = <<id>>
              /\ Get(last_result, "username", ResultKeys) = account.username
              /\ Get(last_result, "url", ResultKeys)
                     = TweetUrl(account.username, id)

\* ------------------------------------------------------------------ the scheduling manager
\* self.platforms of a manager whose Twitter settings are set
Platforms == {"twitter", "simple"}

\* SimpleScheduler.schedule_post: the new post, its id made of the length of
\* the list (no post is ever removed)
new_post(posts, scheduled_time, platform) ==
    [id |-> Len(posts) + 1, scheduled_time |-> scheduled_time,
     platform |-> platform, status |-> "scheduled", platform_post_id |-> None]

\* the first post with the id post_id
FirstWithId(posts, post_id) ==
    CHOOSE i \in 1..Len(posts) :
        /\ posts[i].id = post_id
        /\ \A k \in 1..(i - 1) : posts[k].id # post_id

\* SimpleScheduler.mark_posted
mark_posted(posts, post_id, platform_post_id) ==
    IF \A i \in 1..Len(posts) : posts[i].id # post_id THEN posts
    ELSE [posts EXCEPT ![FirstWithId(posts, post_id)] =
             [@ EXCEPT !.status = "posted",
                       !.platform_post_id =
                           IF Falsy(platform_post_id) THEN @ ELSE platform_post_id]]

\* mark_failed writing the status of a success
mark_failed_as_posted(posts, post_id) ==
    IF \A i \in 1..Len(posts) : posts[i].id # post_id THEN posts
    ELSE [posts EXCEPT ![FirstWithId(posts, post_id)] =
             [@ EXCEPT !.status = "posted"]]

\* SimpleScheduler.mark_failed
mark_failed(posts, post_id) ==
    IF \A i \in 1..Len(posts) : posts[i].id # post_id THEN posts
    ELSE [posts EXCEPT ![FirstWithId(posts, post_id)] =
             [@ EXCEPT !.status = "failed"]]

\* SimpleScheduler.cancel_post
cancel_post(posts, post_id) ==
    IF \E i \in 1..Len(posts) :
          posts[i].id = post_id /\ posts[i].status = "scheduled"
    THEN [posts EXCEPT ![CHOOSE i \in 1..Len(posts) :
                            /\ posts[i].id = post_id
                            /\ posts[i].status = "scheduled"
                            /\ \A k \in 1..(i - 1) :
                                  ~ (posts[k].id = post_id
                                     /\ posts[k].status = "scheduled")] =
             [@ EXCEPT !.status = "cancelled"]]
    ELSE posts

\* process_due_posts: the ids of the posts get_scheduled_posts() returns
\* that are due at the time t on a platform other than 'simple'
RECURSIVE due_posts(_, _)
due_posts(posts, t) ==
    IF Len(posts) = 0 THEN <<>>
    ELSE (IF /\ Head(posts).status = "scheduled"
             /\ Head(posts).scheduled_time <= t
             /\ Head(posts).platform \in Platforms
             /\ Head(posts).platform # "simple"
          THEN <<Head(posts).id>> ELSE <<>>)
         \o due_posts(Tail(posts), t)

\* _post_immediately after post_tweet has returned: the post is marked
post_immediately(posts, post_id, result) ==
    IF Success(result) = PyTrue
    THEN mark_posted(posts, post_id, Get(result, "tweet_id", ResultKeys))
    ELSE mark_failed(posts, post_id)

\* what the provider does with the requests of the scheduler: one account,
\* one id, and a POST that is answered 201 or 500, or that fails
SchedAnswers == {"201", "500", "ClientError"}
SchedIds == {"1001"}
SchedAccounts == {a \in Accounts : a.username = <<"a">>}

\* schedule_post: the post is stored; a post of the next minutes on a
\* platform is posted at once, and the task waits for post_tweet
SchedulePost(j) ==
    /\ jobs[j].pc = "idle"
    /\ Len(scheduled_posts) < MaxPosts
    /\ \E scheduled_time \in Clock, platform \in Platforms :
        \E post \in {new_post(scheduled_posts, scheduled_time, platform)} :
            /\ scheduled_posts' = Append(scheduled_posts, post)
            /\ IF /\ scheduled_time <= now + ImmediateWindow
                  /\ platform # "simple"
                  /\ Len(tweet_calls) < MaxCalls
               THEN /\ tweet_calls' = Append(tweet_calls, post.id)
                    /\ jobs' = [jobs EXCEPT ![j] =
                                  [pc |-> "posting", post |-> post.id,
                                   queue |-> <<>>]]
               ELSE UNCHANGED <<tweet_calls, jobs>>
    /\ UNCHANGED <<oauthVars, token_file, providerVars, callVars, saveVars,
                   pubVars, signVars, nonceVars, now, successes, queueVars>>

\* process_due_posts: the due posts are listed, and the first is posted
ProcessDuePosts(j) ==
    /\ jobs[j].pc = "idle"
    /\ Len(tweet_calls) < MaxCalls
    /\ \E due \in {due_posts(scheduled_posts, now)} :
        /\ due # <<>>
        /\ tweet_calls' = Append(tweet_calls, Head(due))
        /\ jobs' = [jobs EXCEPT ![j] =
                      [pc |-> "posting", post |-> Head(due), queue |-> Tail(due)]]
    /\ UNCHANGED <<oauthVars, token_file, providerVars, callVars, saveVars,
                   pubVars, signVars, nonceVars, scheduled_posts, now,
                   successes, queueVars>>

\* post_tweet returns to _post_immediately, which marks the post; the loop
\* of process_due_posts goes on to the next post of its list
PostReturned(j) ==
    /\ jobs[j].pc = "posting"
    /\ \E answer \in SchedAnswers, id \in SchedIds, me \in MeAnswers,
          account \in SchedAccounts :
        \E done \in {post_tweet(direct, <<"a">>, answer, id, me, account)} :
            /\ direct' = [direct EXCEPT !.user_info = done.user_info]
            /\ scheduled_posts' =
                   post_immediately(scheduled_posts, jobs[j].post, done.ret)
            /\ successes' = IF Success(done.ret) = PyTrue
                            THEN successes \cup {jobs[j].post}
                            ELSE successes
    /\ IF jobs[j].queue # <<>> /\ Len(tweet_calls) < MaxCalls
       THEN /\ tweet_calls' = Append(tweet_calls, Head(jobs[j].queue))
            /\ jobs' = [jobs EXCEPT ![j] =
                          [pc |-> "posting", post |-> Head(jobs[j].queue),
                           queue |-> Tail(jobs[j].queue)]]
       ELSE /\ jobs' = [jobs EXCEPT ![j] = Idle]
            /\ UNCHANGED tweet_calls
    /\ UNCHANGED <<oauthVars, token_file, providerVars, callVars, saveVars,
                   fixed, twitter, signVars, nonceVars, now, queueVars>>

\* the task is cancelled while it waits for post_tweet: nothing is marked
Abandon(j) ==
    /\ jobs[j].pc = "posting"
    /\ jobs' = [jobs EXCEPT ![j] = Idle]
    /\ UNCHANGED <<oauthVars, token_file, providerVars, callVars, saveVars,
                   pubVars, signVars, nonceVars, scheduled_posts, now,
                   tweet_calls, successes, queueVars>>

\* ModernSchedulingManager.cancel_post
CancelPost ==
    \E post_id \in 1..MaxPosts :
        /\ scheduled_posts' = cancel_post(scheduled_posts, post_id)
        /\ scheduled_posts' # scheduled_posts
        /\ UNCHANGED <<oauthVars, token_file, providerVars, callVars, saveVars,
                       pubVars, signVars, nonceVars, now, jobs, tweet_calls,
                       successes, queueVars>>

\* time passes
Tick ==
    /\ \E t \in Clock :
        /\ t > now
        /\ \A other \in Clock : other > now => t <= other
        /\ now' = t
    /\ UNCHANGED <<oauthVars, token_file, providerVars, callVars, saveVars,
                   pubVars, signVars, nonceVars, scheduled_posts, jobs,
                   tweet_calls, successes, queueVars>>

SchedNext ==
    \/ \E j \in Jobs :
          \/ SchedulePost(j)
          \/ ProcessDuePosts(j)
          \/ PostReturned(j)
          \/ Abandon(j)
    \/ CancelPost
    \/ Tick

SpecSched == EncodeInit /\ [][SchedNext]_vars

\* C25: a post has the status posted, or a platform post id, only after
\* post_tweet has returned success for that post
C25_PostedOnlyAfterSuccess ==
    \A i \in 1..Len(scheduled_posts) :
        (\/ scheduled_posts[i].status = "posted"
         \/ scheduled_posts[i].platform_post_id # None)
            => scheduled_posts[i].id \in successes

\* one post was posted and holds its platform id, another one failed
C25_Witness ==
    /\ Len(scheduled_posts) = 2
    /\ \E i, k \in 1..2 :
          /\ scheduled_posts[i].status = "posted"
          /\ scheduled_posts[i].platform_post_id # None
          /\ scheduled_posts[k].status = "failed"
          /\ scheduled_posts[k].id \notin successes

\* C30: post_tweet is called at most once for each scheduled post
C30_PostedAtMostOnce ==
    \A post_id \in 1..Len(scheduled_posts) :
        Cardinality({i \in 1..Len(tweet_calls) : tweet_calls[i] = post_id}) <= 1

\* ------------------------------------------------------------------ the dashboard
\* the texts submitted, the one clock reading and the one review remark
QueueContents == {<<"a">>, <<"a", "a">>}
QueueStamps == {<<"1">>}
Remarks == {<<"a">>}

\* a call of approval_queue.add_item(content)
AddItem ==
    /\ Len(content_items) < MaxItems
    /\ \E content \in QueueContents, stamp \in QueueStamps :
        /\ content_items' = add_item(content_items,
                                     ItemId(Len(content_items) + 1), content, stamp)
        /\ last_op' = "add_item"
        /\ last_args' = content
        /\ last_result' = ItemId(Len(content_items) + 1)
    /\ net' = <<>>
    /\ fs' = <<>>
    /\ UNCHANGED <<oauthVars, token_file, providerVars, saveVars, pubVars,
                   signVars, nonceVars, schedVars, web, publish_calls>>

\* POST /approve/{item_id}: approve_content calls approve_item
ApproveContent ==
    /\ \E item_id \in ItemIds, feedback \in {None}, stamp \in QueueStamps :
        /\ content_items' = approve_item(content_items, item_id, feedback, stamp)
        /\ last_args' = item_id
    /\ last_op' = "approve_item"
    /\ last_result' = PyTrue
    /\ net' = <<>>
    /\ fs' = <<>>
    /\ UNCHANGED <<oauthVars, token_file, providerVars, saveVars, pubVars,
                   signVars, nonceVars, schedVars, web, publish_calls>>

\* POST /reject/{item_id}: reject_content calls reject_item
RejectContent ==
    /\ \E item_id \in ItemIds, reason \in Remarks, stamp \in QueueStamps :
        /\ content_items' = reject_item(content_items, item_id, reason, stamp)
        /\ last_args' = item_id
    /\ last_op' = "reject_item"
    /\ last_result' = PyTrue
    /\ net' = <<>>
    /\ fs' = <<>>
    /\ UNCHANGED <<oauthVars, token_file, providerVars, saveVars, pubVars,
                   signVars, nonceVars, schedVars, web, publish_calls>>

\* publish_content with no look at the status of the item
may_publish_any(item) == item # NoItem

\* publish_content: the item was found and its status is approved
may_publish(item) == item # NoItem /\ item.status = "approved"

\* POST /publish/{item_id}, up to the answer of get_item
PublishRead(h) ==
    /\ web[h].pc = "idle"
    /\ \E item_id \in ItemIds :
        web' = [web EXCEPT ![h] = [pc |-> "read", item_id |-> item_id,
                                   item |-> get_item(content_items, item_id),
                                   url |-> <<>>]]
    /\ last_op' = "get_item"
    /\ last_args' = web'[h].item_id
    /\ last_result' = PyTrue
    /\ net' = <<>>
    /\ fs' = <<>>
    /\ UNCHANGED <<oauthVars, token_file, providerVars, saveVars,
                   pubVars, signVars, nonceVars, schedVars, content_items,
                   publish_calls>>

\* publish_content goes on: an item that may not be published ends the
\* request with an HTTPException; else publish_tweet is called, and a
\* success is to be recorded
PublishSend(h) ==
    /\ web[h].pc = "read"
    /\ IF ~ may_publish(web[h].item)
       THEN /\ web' = [web EXCEPT ![h] = Waiting]
            /\ last_result' = <<"HTTPException">>
            /\ net' = <<>>
            /\ UNCHANGED publish_calls
       ELSE /\ Len(publish_calls) < MaxPublishes
            /\ \E post \in {"ok", "error"}, account \in SchedAccounts,
                  id \in SchedIds, fake_id \in FakeIds :
                \E done \in {fixed_publish_tweet(fixed, web[h].item.content,
                                                 post, account, id, fake_id, 0)} :
                    /\ publish_calls' = Append(publish_calls, web[h].item_id)
                    /\ net' = done.net
                    /\ last_result' = done.ret
                    /\ web' = [web EXCEPT ![h] =
                                 IF Success(done.ret) = PyTrue
                                 THEN [@ EXCEPT !.pc = "mark",
                                                !.url = Get(done.ret, "url", ResultKeys)]
                                 ELSE Waiting]
    /\ last_op' = "publish_content"
    /\ last_args' = web[h].item_id
    /\ fs' = <<>>
    /\ UNCHANGED <<oauthVars, token_file, providerVars, saveVars, pubVars,
                   signVars, nonceVars, schedVars, content_items>>

\* publish_content ends: publish_item records the URL
PublishMark(h) ==
    /\ web[h].pc = "mark"
    /\ \E stamp \in QueueStamps :
        content_items' = publish_item(content_items, web[h].item_id,
                                      web[h].url, stamp)
    /\ web' = [web EXCEPT ![h] = Waiting]
    /\ last_op' = "publish_item"
    /\ last_args' = web[h].item_id
    /\ last_result' = PyTrue
    /\ net' = <<>>
    /\ fs' = <<>>
    /\ UNCHANGED <<oauthVars, token_file, providerVars, saveVars, pubVars,
                   signVars, nonceVars, schedVars, publish_calls>>

\* the dashboard with a connected publisher
QueueInit ==
    /\ InitOAuth
    /\ app_api_key # None
    /\ app_api_secret # None
    /\ token_file = ENOENT
    /\ fixed \in {fixed_init(TRUE, verify) : verify \in SchedAccounts}
    /\ twitter = twitter_init(FALSE, NoAccount)
    /\ direct = direct_init(<<"k">>, <<"s">>, <<"t">>, <<"s", "&">>)
    /\ InitSign
    /\ InitApp

\* the queue calls and the publish requests, one request at a time
QueueNext ==
    \/ AddItem
    \/ ApproveContent
    \/ RejectContent
    \/ \E h \in {"h1"} :
          \/ PublishRead(h)
          \/ PublishSend(h)
          \/ PublishMark(h)

SpecQueue == QueueInit /\ [][QueueNext]_vars

\* the same with publish requests served at the same time
RaceNext ==
    \/ AddItem
    \/ ApproveContent
    \/ RejectContent
    \/ \E h \in Handlers :
          \/ PublishRead(h)
          \/ PublishSend(h)
          \/ PublishMark(h)

SpecRace == QueueInit /\ [][RaceNext]_vars

\* the rows of the items other than item_id are what they were
OthersUnchanged(item_id) ==
    /\ Len(content_items') >= Len(content_items)
    /\ \A i \in 1..Len(content_items) :
           content_items[i][1] # item_id => content_items'[i] = content_items[i]
    /\ \A i \in 1..Len(content_items') :
           i > Len(content_items) => content_items'[i][1] = item_id

\* C26: add_item(content) makes an item that get_item returns by its id with
\* the same content and the status pending; approve_item(id) makes the
\* status of an item approved, publish_item(id, url) makes it published;
\* each leaves the rows of all other items as they were
C26_QueueWorkflow ==
    [][/\ last_op' = "add_item"
          => /\ get_item(content_items', last_result').id = last_result'
             /\ get_item(content_items', last_result').content = last_args'
             /\ get_item(content_items', last_result').status = "pending"
             /\ get_item(content_items, last_result') = NoItem
             /\ OthersUnchanged(last_result')
       /\ (last_op' = "approve_item" /\ get_item(content_items, last_args') # NoItem)
          => /\ get_item(content_items', last_args').status = "approved"
             /\ get_item(content_items', last_args').content
                    = get_item(content_items, last_args').content
       /\ (last_op' = "publish_item" /\ get_item(content_items, last_args') # NoItem)
          => /\ get_item(content_items', last_args').status = "published"
             /\ get_item(content_items', last_args').content
                    = get_item(content_items, last_args').content
       /\ last_op' \in {"approve_item", "publish_item"}
          => OthersUnchanged(last_args')]_vars

\* an item was published while another one is still pending
C26_Witness ==
    /\ last_op = "publish_item"
    /\ Len(content_items) = 2
    /\ \E i, k \in 1..2 :
          /\ content_items[i][4] = "published"
          /\ content_items[i][1] = last_args
          /\ content_items[k][4] = "pending"
          /\ content_items[k][2] # content_items[i][2]

\* C27: a publish request whose item is missing, or has a status other than
\* approved, calls the publisher not once and changes no row
C27_OnlyApprovedIsPublished ==
    [][\A h \in Handlers :
          (/\ web[h].pc = "read"
           /\ last_op' = "publish_content"
           /\ web'[h] # web[h]
           /\ \/ web[h].item = NoItem
              \/ web[h].item.status # "approved")
             => /\ publish_calls' = publish_calls
                /\ content_items' = content_items
                /\ web'[h] = Waiting]_vars

\* a publish request for a rejected item has ended
C27_Witness ==
    /\ last_op = "publish_content"
    /\ last_result = <<"HTTPException">>
    /\ get_item(content_items, last_args) # NoItem
    /\ get_item(content_items, last_args).status = "rejected"
    /\ publish_calls = <<>>

\* C29: publish_tweet is called at most once for an item
C29_PublishedAtMostOnce ==
    \A item_id \in ItemIds :
        Cardinality({i \in 1..Len(publish_calls) :
                        publish_calls[i] = item_id}) <= 1

\* the writes of the token file in the log of a call
Writes(log) ==
    {i \in 1..Len(log) :
       log[i] \in {"write:ok", "write:write_fails", "write:open_fails"}}

\* C28: a call that writes the token file has had verify_credentials()
\* succeed for the client made of the token and secret it writes, and the
\* file it has written holds that token and secret; a complete_authorization
\* that returns False has written nothing
C28_OnlyVerifiedTokenIsWritten ==
    [][/\ Writes(fs') # {}
          => /\ \E i \in 1..Len(net') : net'[i] = "verify_credentials:ok"
             /\ \A i \in 1..Len(net') : net'[i] # "verify_credentials:fail"
             /\ client' = ApiClient(user_access_token', user_access_secret')
             /\ fs'[Len(fs')] = "write:ok"
                   => Stored(token_file', user_access_token', user_access_secret')
       /\ (last_op' = "complete_authorization" /\ last_result' = PyFalse)
          => /\ Writes(fs') = {}
             /\ token_file' = token_file]_vars

\* an exchanged token was verified and written
C28_Witness ==
    /\ last_op = "complete_authorization"
    /\ net = <<"access_token:ok", "verify_credentials:ok">>
    /\ Writes(fs) # {}
    /\ client # None

\* C10: publish_tweet of a publisher with no stored token and no client
\* returns a result with success = True and simulated = True, and sends
\* nothing to the provider.
C10_UnconfiguredPublishSimulates ==
    [][(/\ last_op' = "publish_tweet"
        /\ client = None
        /\ user_access_token = None
        /\ token_file = ENOENT)
       => /\ Get(last_result', "success", ResultKeys) = PyTrue
          /\ Get(last_result', "simulated", ResultKeys) = PyTrue
          /\ net' = <<>>]_vars

====
